---- MODULE Spec2Model ----
(***************************************************************************)
(* A model of the Nachos file system of this repository: the free-sector   *)
(* bitmap, the file header with one level of indirect headers (filehdr.cc),*)
(* the fixed-size directory table (directory.cc) and the facade that maps  *)
(* path names to them (filesys.cc).                                        *)
(*                                                                         *)
(* Geometry is scaled down.  One directory entry is one byte of a          *)
(* directory file, so a directory table of NumDirEntries entries fills     *)
(* DirectoryFileSize = NumDirEntries bytes, which is one sector.           *)
(***************************************************************************)
EXTENDS Integers, Sequences, FiniteSets, TLC

Min(a, b) == IF a <= b THEN a ELSE b
divRoundUp(n, s) == (n + s - 1) \div s

(* ---------------- geometry (disk.h, filehdr.h, directory.h, filesys.h) -- *)
SectorSize == 2
NumSectors == 11
NumDirect == 1
NumIndirect == 2
\* An indirect header reuses the whole dataSectors array of the header layout.
NumMaxSect == NumDirect + NumIndirect
HdrSlots == NumDirect + NumIndirect
FreeMapSector == 0
DirectorySector == 1
NumDirEntries == 2
FileNameMaxLen == 2
\* capacity of the table of open files by id
MAX_SYS_OPENF == 3
DirectoryFileSize == NumDirEntries
\* one bit per sector
FreeMapFileSize == divRoundUp(NumSectors, 8)

(* ---------------- bounds of the explored inputs ------------------------- *)
\* largest file size (bytes) handed to Allocate by the header-level runs
MaxAllocSize == 17
\* deepest path (number of components) handed to the facade
MaxDepth == 2
\* largest initialSize handed to FileSystem::Create
MaxCreateSize == 3
\* number of calls made on one volume
MaxCalls == 4

Sectors == 0 .. (NumSectors - 1)

(* ---------------- Bitmap: the set of marked sectors --------------------- *)
NumClear(map) == NumSectors - Cardinality(map)
Test(map, which) == which \in map
\* Bitmap::Test/Clear assert 0 <= which < numBits
InRange(which) == which >= 0 /\ which < NumSectors
\* FindAndSet returns the lowest clear bit, or -1
FindFree(map) ==
    IF map = Sectors THEN -1
    ELSE CHOOSE s \in Sectors : s \notin map /\ \A t \in Sectors : t < s => t \in map

(* ---------------- FileHeader ------------------------------------------- *)
\* The part of a header that one sector holds.
NoSectors == [i \in 1 .. HdrSlots |-> -1]
FreshImage == [numBytes |-> -1, numSectors |-> -1, dataSectors |-> NoSectors]
\* An entry of indirectTable: NULL, or an in-core header holding an image.
NullChild == [present |-> FALSE, img |-> FreshImage]
\* FileHeader::FileHeader
FreshHeader ==
    [numBytes |-> -1, numSectors |-> -1, dataSectors |-> NoSectors,
     indirectTable |-> [i \in 1 .. NumIndirect |-> NullChild]]
ImageOf(h) ==
    [numBytes |-> h.numBytes, numSectors |-> h.numSectors, dataSectors |-> h.dataSectors]

\* n calls of FindAndSet in a row, filling dataSectors[from .. from+n-1]
\* (0-based slots); callers have checked that n bits are clear.
RECURSIVE FillSlots(_, _, _, _)
FillSlots(map, ds, from, n) ==
    IF n = 0 THEN [map |-> map, ds |-> ds]
    ELSE LET s == FindFree(map)
         IN  FillSlots(map \cup {s}, [ds EXCEPT ![from + 1] = s], from + 1, n - 1)

\* FileHeader::AllocateIndirect on a fresh header
AllocateIndirect(map, sectorNum) ==
    IF NumClear(map) < sectorNum
    THEN [ok |-> FALSE, map |-> map, child |-> [present |-> TRUE, img |-> FreshImage]]
    ELSE LET f == FillSlots(map, NoSectors, 0, sectorNum)
         IN  [ok |-> TRUE, map |-> f.map,
              child |-> [present |-> TRUE,
                         img |-> [numBytes |-> sectorNum * SectorSize,
                                  numSectors |-> sectorNum,
                                  dataSectors |-> f.ds]]]

\* The loop over the indirect slots of FileHeader::Allocate (lines 111-125).
\* status: "true", "false" (return FALSE) or "assert" (a failed ASSERT).
RECURSIVE AllocateLoop(_, _, _, _, _)
AllocateLoop(i, indirectSize, map, h, offset) ==
    IF i >= indirectSize THEN [status |-> "true", map |-> map, hdr |-> h]
    ELSE LET s == FindFree(map)
         IN  IF s < 0 THEN [status |-> "assert", map |-> map, hdr |-> h]
             ELSE LET map1 == map \cup {s}
                      sectorNum == IF NumMaxSect > offset THEN offset ELSE NumMaxSect
                      r == AllocateIndirect(map1, sectorNum)
                      h1 == [h EXCEPT !.dataSectors[NumDirect + i + 1] = s,
                                      !.indirectTable[i + 1] = r.child]
                  IN  IF ~r.ok THEN [status |-> "false", map |-> r.map, hdr |-> h1]
                      ELSE AllocateLoop(i + 1, indirectSize, r.map, h1, offset - sectorNum)

\* FileHeader::Allocate on a fresh header
Allocate(map, fileSize) ==
    LET numSectors == divRoundUp(fileSize, SectorSize)
        h0 == [FreshHeader EXCEPT !.numBytes = fileSize, !.numSectors = numSectors]
    IN  IF NumClear(map) < numSectors THEN [status |-> "false", map |-> map, hdr |-> h0]
        ELSE LET sectorNeeds == IF numSectors <= NumDirect THEN numSectors ELSE NumDirect
                 offset == numSectors - sectorNeeds
                 f == FillSlots(map, NoSectors, 0, sectorNeeds)
                 h1 == [h0 EXCEPT !.dataSectors = f.ds]
             IN  IF offset > 0
                 THEN LET indexNeeds == divRoundUp(offset, NumMaxSect)
                          indirectSize == IF indexNeeds <= NumIndirect THEN indexNeeds
                                          ELSE NumIndirect
                      IN  AllocateLoop(0, indirectSize, f.map, h1, offset)
                 ELSE [status |-> "true", map |-> f.map, hdr |-> h1]

\* FileHeader::Deallocate.  The loop runs i over 0 .. NumMaxSect-1 and reads
\* indirectTable[i] and dataSectors[i].  indirectTable has NumIndirect entries:
\* for i >= NumIndirect the read is past the array, and `wild` says whether the
\* build finds a non-null word there (the pointer is then dereferenced).
\* status: "ok", "assert" (a failed ASSERT) or "fault" (a wild pointer).
RECURSIVE DeallocateLoop(_, _, _, _)
DeallocateLoop(i, h, map, wild) ==
    IF i >= NumMaxSect THEN [status |-> "ok", map |-> map]
    ELSE LET inTable == i < NumIndirect
             child == IF inTable THEN h.indirectTable[i + 1] ELSE NullChild
             \* inner loop "for (j = 0; j < numSectors; j)": j never advances, and
             \* the sector tested and cleared is the child's dataSectors[i].  The
             \* first pass asserts the bit and clears it; the second pass asserts
             \* the same bit again, which is now clear.
             innerRuns == child.present /\ 0 < child.img.numSectors
             s == h.dataSectors[i + 1]
         IN  IF ~inTable /\ wild THEN [status |-> "fault", map |-> map]
             ELSE IF innerRuns THEN [status |-> "assert", map |-> map]
             ELSE IF s # -1
                  THEN IF InRange(s) /\ Test(map, s)
                       THEN DeallocateLoop(i + 1, h, map \ {s}, wild)
                       ELSE [status |-> "assert", map |-> map]
                  ELSE DeallocateLoop(i + 1, h, map, wild)

Deallocate(h, map, wild) == DeallocateLoop(0, h, map, wild)

(* ---------------- sectors on disk --------------------------------------- *)
\* A sector holds a header image, a directory table, the bitmap, or the
\* zero bytes of a disk that was never written there.
RawSector == [k |-> "raw"]
HdrSector(img) == [k |-> "hdr", img |-> img]
DirSector(table) == [k |-> "dir", table |-> table]
MapSector(bits) == [k |-> "map", bits |-> bits]

\* FileHeader::FetchFromIndirect for the slots 0 .. NumIndirect-1, stopping at
\* the first slot that is -1.  status "assert": Disk::ReadRequest got a sector
\* outside the disk; "undef": the sector read holds no header image.
RECURSIVE FetchChildren(_, _, _)
FetchChildren(d, h, i) ==
    IF i >= NumIndirect THEN [status |-> "ok", hdr |-> h]
    ELSE LET s == h.dataSectors[NumDirect + i + 1]
         IN  IF s = -1 THEN [status |-> "ok", hdr |-> h]
             ELSE IF ~InRange(s) THEN [status |-> "assert", hdr |-> h]
             ELSE IF d[s].k # "hdr" THEN [status |-> "undef", hdr |-> h]
             ELSE FetchChildren(d,
                      [h EXCEPT !.indirectTable[i + 1] =
                                    [present |-> TRUE, img |-> d[s].img]],
                      i + 1)

\* FileHeader::FetchFrom into a fresh header
FetchFrom(d, sector) ==
    IF ~InRange(sector) THEN [status |-> "assert", hdr |-> FreshHeader]
    ELSE IF d[sector].k # "hdr" THEN [status |-> "undef", hdr |-> FreshHeader]
    ELSE LET img == d[sector].img
             h == [FreshHeader EXCEPT !.numBytes = img.numBytes,
                                      !.numSectors = img.numSectors,
                                      !.dataSectors = img.dataSectors]
         IN  FetchChildren(d, h, 0)

\* FileHeader::WriteBackIndirect for every live entry of indirectTable
RECURSIVE WriteChildren(_, _, _)
WriteChildren(d, h, i) ==
    IF i >= NumIndirect THEN d
    ELSE LET c == h.indirectTable[i + 1]
             s == h.dataSectors[NumDirect + i + 1]
         IN  IF c.present /\ InRange(s)
             THEN WriteChildren([d EXCEPT ![s] = HdrSector(c.img)], h, i + 1)
             ELSE WriteChildren(d, h, i + 1)

\* FileHeader::WriteBack
WriteBack(d, h, sector) ==
    WriteChildren([d EXCEPT ![sector] = HdrSector(ImageOf(h))], h, 0)

\* FileHeader::ByteToSector.  A position past the direct slots goes through
\* indirectTable[index].  When that entry is NULL the call faults (Undefined).
\* When index lies past the array the word read there is whatever the build
\* has behind it: `oob` is the sector that read leads to, or Undefined.
Undefined == 0 - 2
\* A faulty version of ByteToSector that takes the slot inside the indirect
\* header from the position before NumDirect is taken off: the translation of
\* offsets past the direct slots (C19) does not survive it.
ByteToSectorNoRebase(h, offset, oob) ==
    LET position == offset \div SectorSize
    IN  IF position < NumDirect THEN h.dataSectors[position + 1]
        ELSE LET index == (position - NumDirect) \div NumMaxSect
                 p == position % NumMaxSect
             IN  IF index >= NumIndirect THEN oob
                 ELSE IF h.indirectTable[index + 1].present
                 THEN h.indirectTable[index + 1].img.dataSectors[p + 1]
                 ELSE Undefined

ByteToSector(h, offset, oob) ==
    LET position == offset \div SectorSize
    IN  IF position < NumDirect THEN h.dataSectors[position + 1]
        ELSE LET index == (position - NumDirect) \div NumMaxSect
                 p == (position - NumDirect) % NumMaxSect
             IN  IF index >= NumIndirect THEN oob
                 ELSE IF h.indirectTable[index + 1].present
                 THEN h.indirectTable[index + 1].img.dataSectors[p + 1]
                 ELSE Undefined
\* the sector of the first byte of a file (a direct slot)
FirstSector(h) == ByteToSector(h, 0, Undefined)

(* ---------------- C strings ---------------------------------------------- *)
\* A string is the sequence of its characters; NUL is the terminator.  A
\* buffer is a string followed by its terminator and then by `junk`: the bytes
\* of an uninitialised array that lie behind the terminator.
NUL == "NUL"
Buf(str, junk) == [str |-> str, junk |-> junk]
\* name[i], i counted from 0
At(buf, i) ==
    IF i < Len(buf.str) THEN buf.str[i + 1]
    ELSE IF i = Len(buf.str) THEN NUL
    ELSE IF i - Len(buf.str) <= Len(buf.junk) THEN buf.junk[i - Len(buf.str)]
    ELSE NUL
\* the C string that starts at name[from]
RECURSIVE CStr(_, _)
CStr(buf, from) ==
    IF At(buf, from) = NUL THEN <<>> ELSE <<At(buf, from)>> \o CStr(buf, from + 1)
Prefix(str, n) == SubSeq(str, 1, Min(n, Len(str)))
\* !strncmp(a, b, n)
StrNEq(a, b, n) == Prefix(a, n) = Prefix(b, n)

(* ---------------- Directory -------------------------------------------- *)
ZeroEntry == [inUse |-> FALSE, name |-> <<>>, sector |-> 0, isDir |-> FALSE]
\* Directory::Directory: memset to 0, inUse = FALSE
ZeroTable == [i \in 1 .. NumDirEntries |-> ZeroEntry]

\* A faulty FindIndex that starts its scan at slot 1 and so never sees the
\* entry in slot 0: directory uniqueness (C9) does not survive it.
FindIndexFromSlot1(table, name) ==
    LET hits == {i \in 2 .. NumDirEntries :
                    table[i].inUse /\ StrNEq(table[i].name, name, FileNameMaxLen)}
    IN  IF hits = {} THEN -1
        ELSE (CHOOSE i \in hits : \A j \in hits : i <= j) - 1

\* Directory::FindIndex (0-based, -1 when absent)
FindIndex(table, name) ==
    LET hits == {i \in 1 .. NumDirEntries :
                    table[i].inUse /\ StrNEq(table[i].name, name, FileNameMaxLen)}
    IN  IF hits = {} THEN -1
        ELSE (CHOOSE i \in hits : \A j \in hits : i <= j) - 1

\* Directory::Find
Find(table, name) ==
    LET i == FindIndex(table, name)
    IN  IF i # -1 THEN table[i + 1].sector ELSE -1

\* A faulty version of Add that takes the last free slot of the table, not
\* the first: the slot discipline of the directory (C23) does not survive it.
AddLastFree(table, name, newSector, isDir) ==
    IF FindIndex(table, name) # -1 THEN [ok |-> FALSE, table |-> table]
    ELSE LET free == {i \in 1 .. NumDirEntries : ~table[i].inUse}
         IN  IF free = {} THEN [ok |-> FALSE, table |-> table]
             ELSE LET i == CHOOSE i \in free : \A j \in free : i >= j
                  IN  [ok |-> TRUE,
                       table |-> [table EXCEPT ![i] =
                                     [inUse |-> TRUE,
                                      name |-> Prefix(name, FileNameMaxLen),
                                      sector |-> newSector,
                                      isDir |-> isDir]]]

\* Directory::Add
Add(table, name, newSector, isDir) ==
    IF FindIndex(table, name) # -1 THEN [ok |-> FALSE, table |-> table]
    ELSE LET free == {i \in 1 .. NumDirEntries : ~table[i].inUse}
         IN  IF free = {} THEN [ok |-> FALSE, table |-> table]
             ELSE LET i == CHOOSE i \in free : \A j \in free : i <= j
                  IN  [ok |-> TRUE,
                       table |-> [table EXCEPT ![i] =
                                     [inUse |-> TRUE,
                                      name |-> Prefix(name, FileNameMaxLen),
                                      sector |-> newSector,
                                      isDir |-> isDir]]]

\* A faulty version of Remove that answers TRUE and leaves the entry in use:
\* the entry goes on naming a header sector that the free map hands out
\* again, and tree ownership (C25) does not survive it.
DirRemoveKeeping(table, name) ==
    LET i == FindIndex(table, name)
    IN  IF i = -1 THEN [ok |-> FALSE, table |-> table]
        ELSE [ok |-> TRUE, table |-> table]

\* Directory::Remove
DirRemove(table, name) ==
    LET i == FindIndex(table, name)
    IN  IF i = -1 THEN [ok |-> FALSE, table |-> table]
        ELSE [ok |-> TRUE, table |-> [table EXCEPT ![i + 1].inUse = FALSE]]

(* ---------------- OpenFile: access to a file through its header --------- *)
\* OpenFile::OpenFile(sector) fetches the header.
OpenFile(d, sector) == FetchFrom(d, sector)

\* The bytes a transfer of `want` bytes at position 0 moves: OpenFile::ReadAt
\* and WriteAt stop at the end of the file.
Transfer(fh, want) == IF fh.numBytes <= 0 THEN 0 ELSE Min(fh.numBytes, want)

\* Directory::FetchFrom(file) into a fresh table: the first Transfer entries
\* come from the file, the others stay zero.
ReadTable(d, fh) ==
    LET n == Transfer(fh, DirectoryFileSize)
        s == FirstSector(fh)
    IN  IF n = 0 THEN [status |-> "ok", table |-> ZeroTable]
        ELSE IF ~InRange(s) THEN [status |-> "assert", table |-> ZeroTable]
        ELSE IF d[s].k \notin {"dir", "raw"} THEN [status |-> "undef", table |-> ZeroTable]
        ELSE LET t == IF d[s].k = "dir" THEN d[s].table ELSE ZeroTable
             IN  [status |-> "ok",
                  table |-> [i \in 1 .. NumDirEntries |-> IF i <= n THEN t[i] ELSE ZeroEntry]]

\* Directory::WriteBack(file): the first Transfer entries go to the file, the
\* rest of the sector keeps what it held.
WriteTable(d, fh, table) ==
    LET n == Transfer(fh, DirectoryFileSize)
        s == FirstSector(fh)
    IN  IF n = 0 THEN [status |-> "ok", disk |-> d]
        ELSE IF ~InRange(s) THEN [status |-> "assert", disk |-> d]
        ELSE IF n < NumDirEntries /\ d[s].k \notin {"dir", "raw"}
             THEN [status |-> "undef", disk |-> d]
        ELSE LET old == IF d[s].k = "dir" THEN d[s].table ELSE ZeroTable
                 new == [i \in 1 .. NumDirEntries |-> IF i <= n THEN table[i] ELSE old[i]]
             IN  [status |-> "ok", disk |-> [d EXCEPT ![s] = DirSector(new)]]

\* PersistentBitmap::PersistentBitmap(file, numItems): read the bits
ReadMap(d, fh) ==
    LET s == FirstSector(fh)
    IN  IF ~InRange(s) THEN [status |-> "assert", map |-> {}]
        ELSE IF d[s].k # "map" THEN [status |-> "undef", map |-> {}]
        ELSE [status |-> "ok", map |-> d[s].bits]

\* PersistentBitmap::WriteBack(file)
WriteMap(d, fh, map) == [d EXCEPT ![FirstSector(fh)] = MapSector(map)]

(* ---------------- path names -------------------------------------------- *)
\* where the scan "for (i = 1; name[i + offset]; i++)" ends: at a '/'
\* (flag TRUE) or at the terminator
\* A faulty version of ScanName that scans from the start of the path at
\* every level: the resolution of paths of several components (C20) does not
\* survive it.
RECURSIVE ScanNameNoOffset(_, _, _)
ScanNameNoOffset(name, offset, i) ==
    IF At(name, i) = NUL THEN [flag |-> FALSE, i |-> i]
    ELSE IF At(name, i) = "/" THEN [flag |-> TRUE, i |-> i]
    ELSE ScanNameNoOffset(name, offset, i + 1)

RECURSIVE ScanName(_, _, _)
ScanName(name, offset, i) ==
    IF At(name, i + offset) = NUL THEN [flag |-> FALSE, i |-> i]
    ELSE IF At(name, i + offset) = "/" THEN [flag |-> TRUE, i |-> i]
    ELSE ScanName(name, offset, i + 1)

\* Directory::SearchPath(name, offset) on the directory `table`.
\* status as for FetchFrom; sector is the result (-1: not found).
RECURSIVE SearchPath(_, _, _, _)
SearchPath(d, table, name, offset) ==
    IF At(name, 1) = NUL THEN [status |-> "ok", sector |-> DirectorySector]
    ELSE LET
             sc == ScanName(name, offset, 1)
             \* the bytes copied into filename, read back as a C string
             filename ==
                 IF sc.flag
                 THEN Prefix(CStr(name, offset), sc.i)
                 ELSE CStr(name, offset)
             sector == Find(table, filename)
         IN  IF ~sc.flag \/ sector = -1 THEN [status |-> "ok", sector |-> sector]
             ELSE LET dir == OpenFile(d, sector)
                      sub == ReadTable(d, dir.hdr)
                  IN  IF dir.status # "ok" THEN [status |-> dir.status, sector |-> -1]
                      ELSE IF sub.status # "ok" THEN [status |-> sub.status, sector |-> -1]
                      ELSE SearchPath(d, sub.table, name, sc.i + offset)

\* FileSystem::ExtractBasePath: base = abs[0 .. mark), name = abs[mark ..],
\* mark the position of the last '/'.  (abs holds a '/'.)
LastSlash(abs) == CHOOSE m \in 1 .. Len(abs) :
                      abs[m] = "/" /\ \A k \in (m + 1) .. Len(abs) : abs[k] # "/"
ExtractBase(abs) == SubSeq(abs, 1, LastSlash(abs) - 1)
ExtractName(abs) == SubSeq(abs, LastSlash(abs), Len(abs))

(* ---------------- FileSystem -------------------------------------------- *)
\* FileSystem::FileSystem(format = TRUE) on a disk of zero sectors.
FormatMap0 == {FreeMapSector, DirectorySector}
FormatMapHdr == Allocate(FormatMap0, FreeMapFileSize)
FormatDirHdr == Allocate(FormatMapHdr.map, DirectoryFileSize)
\* A faulty format that writes the free map back before the root-directory
\* file has its data sectors: the post-format state (C10) does not survive it.
FormatDiskEarlyMap ==
    LET d0 == [s \in Sectors |-> RawSector]
        d1 == WriteBack(d0, FormatMapHdr.hdr, FreeMapSector)
        d2 == WriteBack(d1, FormatDirHdr.hdr, DirectorySector)
        mapFile == OpenFile(d2, FreeMapSector).hdr
        dirFile == OpenFile(d2, DirectorySector).hdr
        d3 == WriteMap(d2, mapFile, FormatMapHdr.map)
    IN  WriteTable(d3, dirFile, ZeroTable).disk

\* FileSystem::FileSystem(format = TRUE): the disk it leaves.
FormatDisk ==
    LET d0 == [s \in Sectors |-> RawSector]
        d1 == WriteBack(d0, FormatMapHdr.hdr, FreeMapSector)
        d2 == WriteBack(d1, FormatDirHdr.hdr, DirectorySector)
        mapFile == OpenFile(d2, FreeMapSector).hdr
        dirFile == OpenFile(d2, DirectorySector).hdr
        d3 == WriteMap(d2, mapFile, FormatDirHdr.map)
    IN  WriteTable(d3, dirFile, ZeroTable).disk

\* What a call hands back.  status "ok": the call returned `ret`;
\* "assert"/"fault": the kernel stopped inside the call; "undef": the call
\* read a sector as a table or a header that holds neither (not followed).
\* `why` names the return statement that was taken.
\* `log` lists the writes to the disk the call made, in order, each with the
\* disk as that write left it.
Outcome(status, ret, why, d) ==
    [status |-> status, ret |-> ret, why |-> why, disk |-> d, log |-> <<>>]
Stopped(status, ret, d) == Outcome(status, ret, "stopped", d)
Wrote(what, d) == [what |-> what, disk |-> d]
Logged(o, log) == [o EXCEPT !.log = log]

\* FileSystem::Create is followed statement by statement: each operator
\* below takes what the statement before it produced.

\* line 232: the empty table is written into the new directory
CreateDirWritten(w4, log) ==
    IF w4.status # "ok" THEN Logged(Stopped(w4.status, 0, w4.disk), log)
    ELSE Logged(Outcome("ok", 1, "done", w4.disk), Append(log, Wrote("newdir", w4.disk)))

\* lines 230-232: the new directory is opened
CreateDirOpened(d3, newFile, log) ==
    IF newFile.status # "ok" THEN Logged(Stopped(newFile.status, 0, d3), log)
    ELSE CreateDirWritten(WriteTable(d3, newFile.hdr, ZeroTable), log)

\* lines 224-233: the free map is on disk (d3)
CreateFlushed(d3, sector, isDir, log) ==
    IF ~isDir THEN Logged(Outcome("ok", 1, "done", d3), Append(log, Wrote("map", d3)))
    ELSE CreateDirOpened(d3, OpenFile(d3, sector), Append(log, Wrote("map", d3)))

\* lines 222-233: header (d1) and target directory (w2) are written
CreateWritten(d1, w2, mapFile, map, sector, isDir) ==
    IF w2.status # "ok"
    THEN Logged(Stopped(w2.status, 0, w2.disk), <<Wrote("hdr", d1)>>)
    ELSE CreateFlushed(WriteMap(w2.disk, mapFile, map), sector, isDir,
                       <<Wrote("hdr", d1), Wrote("dir", w2.disk)>>)

\* lines 222-233: the header is written (d1)
CreateHdrWritten(d1, mapFile, targetFile, table, map, sector, isDir) ==
    CreateWritten(d1, WriteTable(d1, targetFile, table), mapFile, map, sector, isDir)

\* A faulty version of CreateAllocated that writes the in-memory free map
\* back when the data sectors cannot be allocated: failure atomicity (C2)
\* does not survive it.
CreateAllocatedFlushing(d, mapFile, targetFile, table, al, sector, isDir) ==
    IF al.status = "assert" THEN Stopped("assert", 0, d)
    ELSE IF al.status = "false"
         THEN Logged(Outcome("ok", 0, "nospace", WriteMap(d, mapFile, al.map)),
                     <<Wrote("map", WriteMap(d, mapFile, al.map))>>)
    ELSE CreateHdrWritten(WriteBack(d, al.hdr, sector), mapFile, targetFile, table,
                          al.map, sector, isDir)

\* lines 216-233: hdr->Allocate(freeMap, size) answered `al`
CreateAllocated(d, mapFile, targetFile, table, al, sector, isDir) ==
    IF al.status = "assert" THEN Stopped("assert", 0, d)
    ELSE IF al.status = "false" THEN Outcome("ok", 0, "nospace", d)
    ELSE CreateHdrWritten(WriteBack(d, al.hdr, sector), mapFile, targetFile, table,
                          al.map, sector, isDir)

\* lines 212-233: targetDirectory->Add answered `added`
CreateAdded(d, mapFile, targetFile, added, map1, sector, size, isDir) ==
    IF ~added.ok THEN Outcome("ok", 0, "dirfull", d)
    ELSE CreateAllocated(d, mapFile, targetFile, added.table, Allocate(map1, size),
                         sector, isDir)

\* lines 209-233: freeMap->FindAndSet() answered `sector`
CreateHeaderAt(d, mapFile, targetFile, targetTable, act_name, size, isDir, map, sector) ==
    IF sector = -1 THEN Outcome("ok", 0, "nohdr", d)
    ELSE CreateAdded(d, mapFile, targetFile, Add(targetTable, act_name, sector, isDir),
                     map \cup {sector}, sector, size, isDir)

\* line 208: the free map is read (fm)
CreateMapRead(d, mapFile, targetFile, targetTable, act_name, size, isDir, fm) ==
    IF fm.status # "ok" THEN Stopped(fm.status, 0, d)
    ELSE CreateHeaderAt(d, mapFile, targetFile, targetTable, act_name, size, isDir,
                        fm.map, FindFree(fm.map))

\* FileSystem::Create, lines 208-237: the name is new in targetDirectory.
CreateNew(d, mapFile, targetFile, targetTable, act_name, size, isDir) ==
    CreateMapRead(d, mapFile, targetFile, targetTable, act_name, size, isDir,
                  ReadMap(d, mapFile))

\* lines 201-238: the target directory's table is read (target)
CreateInto(d, mapFile, targetFile, target, act_name, size, isDir) ==
    IF target.status # "ok" THEN Stopped(target.status, 0, d)
    ELSE IF Find(target.table, act_name) # -1 THEN Outcome("ok", 0, "exists", d)
    ELSE CreateNew(d, mapFile, targetFile.hdr, target.table, act_name, size, isDir)

\* lines 199-238: the target directory is opened (targetFile)
CreateOpened(d, mapFile, targetFile, act_name, size, isDir) ==
    IF targetFile.status # "ok" THEN Stopped(targetFile.status, 0, d)
    ELSE CreateInto(d, mapFile, targetFile, ReadTable(d, targetFile.hdr),
                    act_name, size, isDir)

\* lines 192-238: SearchPath answered `sp`
CreateAt(d, mapFile, sp, act_name, size, isDir) ==
    IF sp.status # "ok" THEN Stopped(sp.status, 0, d)
    ELSE IF sp.sector = -1 THEN Outcome("ok", 0, "nobase", d)
    ELSE CreateOpened(d, mapFile, OpenFile(d, sp.sector), act_name, size, isDir)

\* lines 189-238: the root directory's table is read (root)
CreateFrom(d, mapFile, root, name, size, isDir, junk) ==
    IF root.status # "ok" THEN Stopped(root.status, 0, d)
    ELSE CreateAt(d, mapFile,
                  SearchPath(d, root.table, Buf(ExtractBase(name), junk), 0),
                  ExtractName(name), size, isDir)

\* FileSystem::Create(name, initialSize, isDir); `junk` is what BasedPath
\* holds behind the terminator that ExtractBasePath stores.
Create(d, mapFile, dirFile, name, initialSize, isDir, junk) ==
    CreateFrom(d, mapFile, ReadTable(d, dirFile), name,
               IF isDir THEN DirectoryFileSize ELSE initialSize, isDir, junk)

\* Directory::Destroy(freeMap, path, file) on the directory `table` of `file`,
\* from entry i on.  The result carries the disk (sub-directories are written
\* back as they are emptied), the in-core bitmap and the writes made.
RECURSIVE Destroy(_, _, _, _, _, _)
Emptied(status, d, map, log) == [status |-> status, disk |-> d, map |-> map, log |-> log]
\* the writes `log` were made before those of r
After(log, r) == [r EXCEPT !.log = log \o @]

\* lines 385-387: Deallocate answered `de`; the header's bit is cleared and
\* the entry removed
DestroyFreed(i, inner, table, file, wild, e, de) ==
    IF de.status # "ok"
    THEN Emptied(de.status, inner.disk, inner.map, inner.log)
    ELSE IF ~InRange(e.sector)
    THEN Emptied("assert", inner.disk, inner.map, inner.log)
    ELSE After(inner.log, Destroy(i + 1, inner.disk, de.map \ {e.sector},
                                  DirRemove(table, e.name).table, file, wild))

\* lines 383-387: the entry's header is fetched (fileHdr)
DestroyFetched(i, inner, table, file, wild, e, fileHdr) ==
    IF fileHdr.status # "ok"
    THEN Emptied(fileHdr.status, inner.disk, inner.map, inner.log)
    ELSE DestroyFreed(i, inner, table, file, wild, e,
                      Deallocate(fileHdr.hdr, inner.map, wild))

\* lines 382-389: entry e after its sub-directory, if it is one, was emptied
\* (inner)
DestroyEntry(i, inner, table, file, wild, e) ==
    IF inner.status # "ok" THEN inner
    ELSE DestroyFetched(i, inner, table, file, wild, e, FetchFrom(inner.disk, e.sector))

\* lines 375-379: the sub-directory's table is read (sub) and emptied
DestroySub(d, map, tarDir, sub, wild) ==
    IF sub.status # "ok" THEN Emptied(sub.status, d, map, <<>>)
    ELSE Destroy(0, d, map, sub.table, tarDir.hdr, wild)

\* lines 373-379: the sub-directory is opened (tarDir)
DestroyDir(d, map, tarDir, wild) ==
    IF tarDir.status # "ok" THEN Emptied(tarDir.status, d, map, <<>>)
    ELSE DestroySub(d, map, tarDir, ReadTable(d, tarDir.hdr), wild)

\* line 396: WriteBack(file)
DestroyWritten(w, map) == Emptied(w.status, w.disk, map, <<Wrote("sub", w.disk)>>)

Destroy(i, d, map, table, file, wild) ==
    IF i >= NumDirEntries THEN DestroyWritten(WriteTable(d, file, table), map)
    ELSE IF ~table[i + 1].inUse THEN Destroy(i + 1, d, map, table, file, wild)
    ELSE DestroyEntry(i,
                      IF table[i + 1].isDir
                      THEN DestroyDir(d, map, OpenFile(d, table[i + 1].sector), wild)
                      ELSE Emptied("ok", d, map, <<>>),
                      table, file, wild, table[i + 1])

\* FileSystem::Remove, lines 339-345: the base directory is written (w2)
RemoveWritten(w2, log) ==
    IF w2.status # "ok" THEN Logged(Stopped(w2.status, FALSE, w2.disk), log)
    ELSE Logged(Outcome("ok", TRUE, "done", w2.disk), Append(log, Wrote("dir", w2.disk)))

\* A faulty version of RemoveMapWritten that writes the base directory's table
\* back into the root directory's file: the frame of remove (C27) does not
\* survive it.
RemoveMapWrittenToRoot(d1, baseDir, table, log) ==
    RemoveWritten(WriteTable(d1, OpenFile(d1, DirectorySector).hdr, table),
                  Append(log, Wrote("map", d1)))

\* lines 338-345: the free map is written (d1)
RemoveMapWritten(d1, baseDir, table, log) ==
    RemoveWritten(WriteTable(d1, baseDir, table), Append(log, Wrote("map", d1)))

\* lines 334-345: Deallocate answered `de`; the header's bit is cleared, the
\* entry removed, the free map and the base directory written back
RemoveFreed(ds, mapFile, baseDir, baseTable, filename, sector, de) ==
    IF de.status # "ok" THEN Logged(Stopped(de.status, FALSE, ds.disk), ds.log)
    ELSE RemoveMapWritten(WriteMap(ds.disk, mapFile, de.map \ {sector}),
                          baseDir, DirRemove(baseTable, filename).table, ds.log)

\* lines 332-345: the file's header is fetched (fileHdr)
RemoveFetched(ds, mapFile, baseDir, baseTable, filename, sector, wild, fileHdr) ==
    IF fileHdr.status # "ok" THEN Logged(Stopped(fileHdr.status, FALSE, ds.disk), ds.log)
    ELSE RemoveFreed(ds, mapFile, baseDir, baseTable, filename, sector,
                     Deallocate(fileHdr.hdr, ds.map, wild))

\* lines 323-345: with recur the target was emptied by Destroy (ds)
RemoveEmptied(ds, mapFile, baseDir, baseTable, filename, sector, wild) ==
    IF ds.status # "ok" THEN Logged(Stopped(ds.status, FALSE, ds.disk), ds.log)
    ELSE RemoveFetched(ds, mapFile, baseDir, baseTable, filename, sector, wild,
                       FetchFrom(ds.disk, sector))

\* lines 321-345: the free map is read (fm)
RemoveMapRead(d, mapFile, baseDir, baseTable, filename, sector, recur, wild, fm) ==
    IF fm.status # "ok" THEN Stopped(fm.status, FALSE, d)
    ELSE RemoveEmptied(IF recur
                       THEN DestroyDir(d, fm.map, OpenFile(d, sector), wild)
                       ELSE Emptied("ok", d, fm.map, <<>>),
                       mapFile, baseDir, baseTable, filename, sector, wild)

\* FileSystem::Remove, lines 321-345: the entry was found at `sector`.
RemoveFound(d, mapFile, baseDir, baseTable, filename, sector, recur, wild) ==
    RemoveMapRead(d, mapFile, baseDir, baseTable, filename, sector, recur, wild,
                  ReadMap(d, mapFile))

\* lines 313-345: Find answered `sector`
RemoveEntry(d, mapFile, baseDir, baseTable, filename, sector, recur, wild) ==
    IF sector = -1 \/ sector = DirectorySector THEN Outcome("ok", FALSE, "absent", d)
    ELSE RemoveFound(d, mapFile, baseDir, baseTable, filename, sector, recur, wild)

\* lines 312-345: the base directory's table is read (base)
RemoveIn(d, mapFile, baseDir, base, filename, recur, wild) ==
    IF base.status # "ok" THEN Stopped(base.status, FALSE, d)
    ELSE RemoveEntry(d, mapFile, baseDir.hdr, base.table, filename,
                     Find(base.table, filename), recur, wild)

\* lines 311-345: the base directory is opened (baseDir)
RemoveOpened(d, mapFile, baseDir, filename, recur, wild) ==
    IF baseDir.status # "ok" THEN Stopped(baseDir.status, FALSE, d)
    ELSE RemoveIn(d, mapFile, baseDir, ReadTable(d, baseDir.hdr), filename, recur, wild)

\* lines 303-345: SearchPath answered `sp`
RemoveAt(d, mapFile, sp, filename, recur, wild) ==
    IF sp.status # "ok" THEN Stopped(sp.status, FALSE, d)
    ELSE IF sp.sector = -1 THEN Outcome("ok", FALSE, "nobase", d)
    ELSE RemoveOpened(d, mapFile, OpenFile(d, sp.sector), filename, recur, wild)

\* lines 301-345: the root directory's table is read (root)
RemoveFrom(d, mapFile, root, name, recur, junk, wild) ==
    IF root.status # "ok" THEN Stopped(root.status, FALSE, d)
    ELSE RemoveAt(d, mapFile,
                  SearchPath(d, root.table, Buf(ExtractBase(name), junk), 0),
                  ExtractName(name), recur, wild)

\* FileSystem::Remove(name, recur)
Remove(d, mapFile, dirFile, name, recur, junk, wild) ==
    RemoveFrom(d, mapFile, ReadTable(d, dirFile), name, recur, junk, wild)

(* ---------------- the calls the kernel makes ----------------------------- *)
Components == {<<"/", "a">>, <<"/", "b">>}
RECURSIVE PathsOfDepth(_)
PathsOfDepth(n) ==
    IF n = 0 THEN {<<>>}
    ELSE {p \o c : p \in PathsOfDepth(n - 1), c \in Components}
\* "/" and every path of 1 .. MaxDepth components
Paths == {<<"/">>} \cup UNION {PathsOfDepth(n) : n \in 1 .. MaxDepth}
FileSizes == 0 .. MaxCreateSize
\* what an uninitialised path buffer may hold behind the terminator
Junk == {<<>>, <<"a">>, <<"/">>}
\* the buffer is read behind its terminator only when the base path is empty
JunkFor(name) == IF LastSlash(name) = 1 THEN Junk ELSE {<<>>}

VARIABLES
    disk,           \* the sectors of the disk
    freeMapFile,    \* FileSystem::freeMapFile: the open bitmap file (its header)
    directoryFile,  \* FileSystem::directoryFile: the open root directory file
    last,           \* the last call and what it handed back
    undo,           \* a create of a file and the remove that follows it
    tree,           \* a create of a directory and the creates below it
    calls,          \* calls made so far
    writes,         \* what the last call wrote to the disk, in order
    SysWideOpenFileTable,   \* FileSystem::SysWideOpenFileTable: id -> open file
    heap,           \* the objects the last call made with new and did not delete
    out,            \* the lines the last list printed
    hx,             \* one file header taken through its operations
    dx              \* one directory table taken through its operations

\* the state of the calls that go by file id
idVars == <<SysWideOpenFileTable, heap, out>>
vars == <<disk, freeMapFile, directoryFile, last, undo, tree, calls, writes, hx, dx, dx, idVars>>

\* the bitmap as the disk holds it
DiskMap(d, mapFile) == ReadMap(d, mapFile).map
\* the sector that holds the table of the directory a path's base resolves to
BaseBlock(d, dirFile, name, junk) ==
    LET sp == SearchPath(d, ReadTable(d, dirFile).table, Buf(ExtractBase(name), junk), 0)
    IN  FirstSector(OpenFile(d, sp.sector).hdr)

NoHx == [phase |-> "none", map |-> {}, size |-> 0, status |-> "none",
         hdr |-> FreshHeader, amap |-> {}, sector |-> 0, back |-> FreshHeader,
         wild |-> FALSE, destatus |-> "none", demap |-> {}, mine |-> <<>>, theirs |-> <<>>]
NoUndo == [phase |-> "none", name |-> <<>>, map |-> {}, at |-> 0, block |-> RawSector]
NoTree == [phase |-> "none", name |-> <<>>, map |-> {}, made |-> {}]
\* a fresh Directory on which no call was made
NoDx == [op |-> "none", table |-> ZeroTable, prev |-> ZeroTable, name |-> <<>>,
         sector |-> 0, isDir |-> FALSE, ok |-> FALSE]

\* the table of open files by id: slots 1 .. MAX_SYS_OPENF, all NULL at first
NULL == 0 - 1
NoOpenFiles == [fd \in 1 .. MAX_SYS_OPENF |-> NULL]

\* The record of a call.  A call that returns failure leaves its arguments
\* out: `why` tells which return it took.
Call(op, name, size, flag, r) ==
    IF r.status = "ok" /\ r.why # "done"
    THEN [op |-> op, name |-> <<>>, size |-> 0, flag |-> FALSE,
          status |-> r.status, ret |-> r.ret, why |-> r.why]
    ELSE [op |-> op, name |-> name, size |-> size, flag |-> flag,
          status |-> r.status, ret |-> r.ret, why |-> r.why]

Init ==
    /\ disk = FormatDisk
    /\ freeMapFile = OpenFile(FormatDisk, FreeMapSector).hdr
    /\ directoryFile = OpenFile(FormatDisk, DirectorySector).hdr
    /\ last = [op |-> "format", name |-> <<>>, size |-> 0, flag |-> TRUE,
               status |-> "ok", ret |-> 1, why |-> "done"]
    /\ undo = NoUndo
    /\ tree = NoTree
    /\ calls = 0
    /\ writes = <<>>
    /\ hx = NoHx
    /\ dx = NoDx
    /\ SysWideOpenFileTable = NoOpenFiles
    /\ heap = {}
    /\ out = <<>>

\* the kernel runs calls one at a time, and none after it has stopped
Running == last.status = "ok" /\ calls < MaxCalls

\* The objects a call makes with new and gives back with delete, in the order
\* of the statements on the path to the return that was taken (`why`).
New(x) == <<"new", x>>
Delete(x) == <<"delete", x>>
\* what is left of `held` after the events
RECURSIVE Live(_, _)
Live(events, held) ==
    IF events = <<>> THEN held
    ELSE Live(Tail(events),
              IF Head(events)[1] = "new" THEN held \cup {Head(events)[2]}
              ELSE held \ {Head(events)[2]})

\* FileSystem::Create: lines 175, 199-200, 208, 215 (and the indirect headers
\* of Allocate, filehdr.cc line 122), 228-231, 235 (with ~FileHeader), 237,
\* 240-242.  The return of line 195 comes before every delete.
CreateHeap(why, isDir) ==
    LET start == <<New("rootDirectory")>>
        opened == start \o <<New("targetFile"), New("targetDirectory")>>
        mapped == opened \o <<New("freeMap")>>
        headed == mapped \o <<New("hdr"), New("hdr->indirectTable")>>
        again == IF isDir
                 THEN <<Delete("targetFile"), Delete("targetDirectory"),
                        New("targetFile"), New("targetDirectory")>>
                 ELSE <<>>
        unheaded == <<Delete("hdr->indirectTable"), Delete("hdr"), Delete("freeMap")>>
        epilogue == <<Delete("rootDirectory"), Delete("targetFile"),
                      Delete("targetDirectory")>>
    IN  CASE why = "nobase" -> start
          [] why = "exists" -> opened \o epilogue
          [] why \in {"nohdr", "dirfull"} -> mapped \o <<Delete("freeMap")>> \o epilogue
          [] why = "nospace" -> headed \o unheaded \o epilogue
          [] why = "done" -> headed \o again \o unheaded \o epilogue
          [] OTHER -> <<>>

\* FileSystem::Remove: lines 301, 305, 311-312, 316-317, 321, 324-328, 331
\* (and the indirect headers of FetchFrom, filehdr.cc line 196), 341-344.
RemoveHeap(why, recur) ==
    LET start == <<New("baseDirectory"), Delete("baseDirectory")>>
        opened == start \o <<New("baseDir"), New("baseDirectory")>>
        emptied == IF recur
                   THEN <<New("tarDir"), New("targetDirectory"),
                          Delete("targetDirectory"), Delete("tarDir")>>
                   ELSE <<>>
    IN  CASE why = "nobase" -> start
          [] why = "absent" -> opened \o <<Delete("baseDirectory"), Delete("baseDir")>>
          [] why = "done" ->
                 opened \o <<New("freeMap")>> \o emptied
                 \o <<New("fileHdr"), New("fileHdr->indirectTable"),
                      Delete("baseDirectory"), Delete("baseDir"),
                      Delete("fileHdr->indirectTable"), Delete("fileHdr"),
                      Delete("freeMap")>>
          [] OTHER -> <<>>

\* FileSystem::Open: lines 259, 269, 270.  The open file made at line 269 is
\* handed to the caller and is not counted.
OpenHeap == <<New("directory"), Delete("directory")>>

\* the kinds of the writes in a log
Labels(log) == [i \in 1 .. Len(log) |-> log[i].what]

\* The machine halts inside a call that would have answered r, after the
\* first k of its writes: the disk stays as the k-th write left it.
Halted(op, name, size, flag, r, k) ==
    /\ Running
    /\ r.status = "ok"
    /\ disk' = IF k = 0 THEN disk ELSE r.log[k].disk
    /\ last' = [op |-> op, name |-> name, size |-> size, flag |-> flag,
                status |-> "crash", ret |-> r.ret, why |-> "stopped"]
    /\ undo' = NoUndo
    /\ tree' = NoTree
    /\ calls' = calls + 1
    /\ writes' = Labels(SubSeq(r.log, 1, k))
    /\ heap' = {}
    /\ UNCHANGED <<freeMapFile, directoryFile, hx, dx, SysWideOpenFileTable, out>>

\* name lies below the directory dirName
Below(name, dirName) ==
    /\ Len(name) > Len(dirName)
    /\ SubSeq(name, 1, Len(dirName)) = dirName
    /\ name[Len(dirName) + 1] = "/"

\* the state after FileSystem::Create answered r; `at` is the sector of the
\* block of the directory the name was created in
Created(name, initialSize, isDir, r, at) ==
    LET done == r.status = "ok" /\ r.ret = 1
    IN  /\ Running
        /\ r.status # "undef"
        /\ disk' = r.disk
        /\ last' = Call("create", name, initialSize, isDir, r)
        /\ undo' = IF done /\ ~isDir
                   THEN [phase |-> "created", name |-> name,
                         map |-> DiskMap(disk, freeMapFile),
                         at |-> at,
                         block |-> IF InRange(at) THEN disk[at] ELSE RawSector]
                   ELSE NoUndo
        /\ tree' = IF tree.phase = "built" /\ Below(name, tree.name)
                   THEN IF done THEN [tree EXCEPT !.made = @ \cup {name}] ELSE tree
                   ELSE IF done /\ isDir /\ InRange(at)
                   THEN [phase |-> "built", name |-> name,
                         map |-> DiskMap(disk, freeMapFile), made |-> {}]
                   ELSE NoTree
        /\ calls' = calls + 1
        /\ writes' = Labels(r.log)
        /\ heap' = Live(CreateHeap(r.why, isDir), {})
        /\ UNCHANGED <<freeMapFile, directoryFile, hx, dx, SysWideOpenFileTable, out>>

DoCreate(name, initialSize, isDir, junk) ==
    Running /\ \E r \in {Create(disk, freeMapFile, directoryFile, name, initialSize, isDir, junk)} :
        Created(name, initialSize, isDir, r, BaseBlock(disk, directoryFile, name, junk))

\* the state after FileSystem::Remove answered r
Removed(name, recur, r) ==
    /\ Running
    /\ r.status # "undef"
    /\ disk' = r.disk
    /\ last' = Call("remove", name, 0, recur, r)
    /\ undo' = IF undo.phase = "created" /\ undo.name = name /\ ~recur
               THEN [undo EXCEPT !.phase = "removed"]
               ELSE NoUndo
    /\ tree' = IF tree.phase = "built" /\ tree.name = name /\ recur
               THEN [tree EXCEPT !.phase = "removed"]
               ELSE NoTree
    /\ calls' = calls + 1
    /\ writes' = Labels(r.log)
    /\ heap' = Live(RemoveHeap(r.why, recur), {})
    /\ UNCHANGED <<freeMapFile, directoryFile, hx, dx, SysWideOpenFileTable, out>>

DoRemove(name, recur, junk, wild) ==
    Running /\ \E r \in {Remove(disk, freeMapFile, directoryFile, name, recur, junk, wild)} :
        Removed(name, recur, r)

\* a directory is made with any initialSize; the size is not used for it
CreateStep == \E name \in Paths, isDir \in BOOLEAN :
                  \E n \in (IF isDir THEN {0, MaxCreateSize} ELSE FileSizes) :
                      \E junk \in JunkFor(name) : DoCreate(name, n, isDir, junk)
RemoveStep == \E name \in Paths, recur \in BOOLEAN, wild \in BOOLEAN :
                  \E junk \in JunkFor(name) : DoRemove(name, recur, junk, wild)

\* a call may be cut short by a halt of the machine between two writes
CreateHalt == Running /\ \E name \in Paths, isDir \in BOOLEAN :
                  \E n \in (IF isDir THEN {0, MaxCreateSize} ELSE FileSizes) :
                      \E junk \in JunkFor(name) :
                          \E r \in {Create(disk, freeMapFile, directoryFile, name, n,
                                            isDir, junk)} :
                              \E k \in 0 .. Len(r.log) - 1 :
                                  Halted("create", name, n, isDir, r, k)
RemoveHalt == Running /\ \E name \in Paths, recur \in BOOLEAN, wild \in BOOLEAN :
                  \E junk \in JunkFor(name) :
                      \E r \in {Remove(disk, freeMapFile, directoryFile, name, recur,
                                        junk, wild)} :
                          \E k \in 0 .. Len(r.log) - 1 :
                              Halted("remove", name, 0, recur, r, k)

Next == CreateStep \/ RemoveStep \/ CreateHalt \/ RemoveHalt

Spec == Init /\ [][Next]_vars

(* ---------------- the calls that go by file id --------------------------- *)
\* FileSystem::Open, lines 266-271: SearchPath answered `sp`.  An open file is
\* modelled by the sector of its header; NULL when the path is not found.
OpenFound(sp) ==
    IF sp.status # "ok" THEN [status |-> sp.status, file |-> NULL]
    ELSE IF sp.sector >= 0 THEN [status |-> "ok", file |-> sp.sector]
    ELSE [status |-> "ok", file |-> NULL]

\* lines 264-271: the root directory's table is read (root)
OpenFrom(d, root, name) ==
    IF root.status # "ok" THEN [status |-> root.status, file |-> NULL]
    ELSE OpenFound(SearchPath(d, root.table, Buf(name, <<>>), 0))

\* FileSystem::Open(name)
Open(d, dirFile, name) == OpenFrom(d, ReadTable(d, dirFile), name)

\* FileSystem::OpenFileForId, lines 427-433: the loop entered with fd.  The
\* last turn reads SysWideOpenFileTable[MAX_SYS_OPENF + 1]; whatever it
\* finds there, the loop is left with fd = MAX_SYS_OPENF + 1.
RECURSIVE FreeSlot(_, _)
FreeSlot(table, fd) ==
    IF fd > MAX_SYS_OPENF THEN fd
    ELSE IF fd + 1 > MAX_SYS_OPENF THEN fd + 1
    ELSE IF table[fd + 1] = NULL THEN fd + 1
    ELSE FreeSlot(table, fd + 1)

\* lines 427-436: the file is stored in the slot found, NULL or not
OpenStored(table, file, fd) ==
    IF fd > MAX_SYS_OPENF THEN [status |-> "assert", fd |-> fd, table |-> table]
    ELSE [status |-> "ok", fd |-> fd, table |-> [table EXCEPT ![fd] = file]]

\* FileSystem::OpenFileForId(name), after Open answered `opened`
OpenFileForId(table, opened) ==
    IF opened.status # "ok" THEN [status |-> opened.status, fd |-> 0, table |-> table]
    ELSE OpenStored(table, opened.file, FreeSlot(table, 0))

\* what a read of SysWideOpenFileTable[id] outside the table may find
Wild == 0 - 3
Words == {NULL, Wild}
\* FileSystem::CloseFileId(id).  There is no test of id: outside the table
\* the slot read is `word`, and when that is not NULL it is handed to delete,
\* which the kernel survives or not.
CloseFileId(table, id, word, survives) ==
    IF id \in 1 .. MAX_SYS_OPENF
    THEN IF table[id] = NULL THEN [status |-> "ok", ret |-> 0, table |-> table]
         ELSE [status |-> "ok", ret |-> 1, table |-> [table EXCEPT ![id] = NULL]]
    ELSE IF word = NULL THEN [status |-> "ok", ret |-> 0, table |-> table]
    ELSE IF survives THEN [status |-> "ok", ret |-> 1, table |-> table]
    ELSE [status |-> "fault", ret |-> 0, table |-> table]

\* the ids handed to the calls: one below the table, and the table's own
Ids == {0 - 1} \cup (1 .. MAX_SYS_OPENF)

\* A faulty version of ListLine that leaves the path of the directory out of
\* the line: the lines of a listing (C17) do not survive it.
ListLineBare(from, e) ==
    e.name \o <<" ">> \o (IF e.isDir THEN <<"D">> ELSE <<"F">>)

\* Directory::List, lines 311-317: the line printed for the in-use entry e,
\* without its newline
ListLine(from, e) ==
    from \o e.name \o <<" ">> \o (IF e.isDir THEN <<"D">> ELSE <<"F">>)

\* Directory::List(from, recur) on the directory `table`, from entry i on:
\* the lines printed.  status as for FetchFrom.
RECURSIVE ListDir(_, _, _, _, _)
Printed(status, lines) == [status |-> status, out |-> lines]
\* `lines` were printed before those of r
PrintedBefore(lines, r) == [r EXCEPT !.out = lines \o @]

\* lines 327-328: the sub-directory's table is read (sub) and listed
ListSub(d, sub, path, recur) ==
    IF sub.status # "ok" THEN Printed(sub.status, <<>>)
    ELSE ListDir(d, sub.table, 0, path, recur)

\* lines 325-328: the sub-directory is opened (file); path is from with the
\* entry's name appended
ListOpened(d, file, path, recur) ==
    IF file.status # "ok" THEN Printed(file.status, <<>>)
    ELSE ListSub(d, ReadTable(d, file.hdr), path, recur)

\* lines 311-332: the entry's line is printed and, with recur, the directory
\* it names was listed (inner)
ListEntry(d, table, i, from, recur, line, inner) ==
    IF inner.status # "ok" THEN Printed(inner.status, <<line>> \o inner.out)
    ELSE PrintedBefore(<<line>> \o inner.out, ListDir(d, table, i + 1, from, recur))

ListDir(d, table, i, from, recur) ==
    IF i >= NumDirEntries THEN Printed("ok", <<>>)
    ELSE IF ~table[i + 1].inUse THEN ListDir(d, table, i + 1, from, recur)
    ELSE ListEntry(d, table, i, from, recur, ListLine(from, table[i + 1]),
                   IF recur /\ table[i + 1].isDir
                   THEN ListOpened(d, OpenFile(d, table[i + 1].sector),
                                   from \o Prefix(table[i + 1].name, FileNameMaxLen),
                                   recur)
                   ELSE Printed("ok", <<>>))

\* FileSystem::List, lines 366-368: the target directory's table is read
ListTarget(d, target, path, recur) ==
    IF target.status # "ok" THEN Printed(target.status, <<>>)
    ELSE ListDir(d, target.table, 0, path, recur)

\* lines 365-368: the file at the sector found is opened
ListFile(d, file, path, recur) ==
    IF file.status # "ok" THEN Printed(file.status, <<>>)
    ELSE ListTarget(d, ReadTable(d, file.hdr), path, recur)

\* lines 359-371: SearchPath answered `sp`; the root is listed from the empty
\* path (from == NULL)
ListAt(d, root, sp, path, recur) ==
    IF sp.status # "ok" THEN Printed(sp.status, <<>>)
    ELSE IF sp.sector = DirectorySector THEN ListDir(d, root.table, 0, <<>>, recur)
    ELSE ListFile(d, OpenFile(d, sp.sector), path, recur)

\* lines 356-371: the root directory's table is read (root)
ListFrom(d, root, path, recur) ==
    IF root.status # "ok" THEN Printed(root.status, <<>>)
    ELSE ListAt(d, root, SearchPath(d, root.table, Buf(path, <<>>), 0), path, recur)

\* FileSystem::List(path, recur)
List(d, dirFile, path, recur) == ListFrom(d, ReadTable(d, dirFile), path, recur)

\* FileSystem::List: lines 356, 365-366, 369-370, 374 (Directory::List makes
\* and deletes its own: lines 304, 325-326, 330-331, 336)
ListHeap ==
    <<New("rootDirectory"), New("file"), New("targetDirectory"),
      Delete("targetDirectory"), Delete("file"), Delete("rootDirectory")>>

\* the paths handed to the calls by id and to list
IdPaths == {<<"/">>, <<"/", "a">>, <<"/", "b">>, <<"/", "d">>, <<"/", "d", "/", "x">>,
            <<"/", "d", "/", "b">>, <<"/", "b", "/", "x">>}

\* the state after FileSystem::List answered r
Listed(path, recur, r) ==
    /\ last.status = "ok"
    /\ r.status # "undef"
    /\ out' = r.out
    /\ heap' = Live(ListHeap, {})
    /\ last' = [op |-> "list", name |-> path, size |-> 0, flag |-> recur,
                status |-> r.status, ret |-> 0, why |-> "done"]
    /\ UNCHANGED <<disk, freeMapFile, directoryFile, undo, tree, calls, writes, hx, dx,
                   SysWideOpenFileTable>>

\* the state after OpenFileForId(name) answered r
OpenedForId(name, r) ==
    /\ last.status = "ok"
    /\ r.status # "undef"
    /\ SysWideOpenFileTable' = r.table
    /\ heap' = Live(OpenHeap, {})
    /\ last' = [op |-> "openid", name |-> name, size |-> 0, flag |-> FALSE,
                status |-> r.status, ret |-> r.fd, why |-> "done"]
    /\ UNCHANGED <<disk, freeMapFile, directoryFile, undo, tree, calls, writes, hx, dx, out>>

\* the state after CloseFileId(id) answered r
ClosedId(id, r) ==
    /\ last.status = "ok"
    /\ SysWideOpenFileTable' = r.table
    /\ heap' = {}
    /\ last' = [op |-> "closeid", name |-> <<>>, size |-> id, flag |-> FALSE,
                status |-> r.status, ret |-> r.ret, why |-> "done"]
    /\ UNCHANGED <<disk, freeMapFile, directoryFile, undo, tree, calls, writes, hx, dx, out>>

OpenIdStep == \E name \in IdPaths :
                  OpenedForId(name, OpenFileForId(SysWideOpenFileTable,
                                                  Open(disk, directoryFile, name)))
CloseIdStep == \E id \in Ids, word \in Words, survives \in BOOLEAN :
                   ClosedId(id, CloseFileId(SysWideOpenFileTable, id, word, survives))

\* the volume is filled, before any file is opened, by creates of a file, a
\* directory and a file in that directory
BuildStep ==
    /\ SysWideOpenFileTable = NoOpenFiles
    /\ last.op \in {"format", "create"}
    /\ \/ DoCreate(<<"/", "a">>, 1, FALSE, <<>>)
       \/ DoCreate(<<"/", "d">>, 0, TRUE, <<>>)
       \/ DoCreate(<<"/", "d", "/", "x">>, MaxCreateSize, FALSE, <<>>)

ListStep == \E path \in IdPaths, recur \in BOOLEAN :
                Listed(path, recur, List(disk, directoryFile, path, recur))

NextIds == BuildStep \/ OpenIdStep \/ CloseIdStep \/ ListStep

SpecIds == Init /\ [][NextIds]_vars

(* ---------------- one header through its operations --------------------- *)
\* The bitmaps Allocate is handed: sectors 0 and 1 are marked from format on.
StartMaps == {{FreeMapSector, DirectorySector} \cup m :
                 m \in SUBSET (Sectors \ {FreeMapSector, DirectorySector})}
\* what a read past indirectTable may lead to
OobValues == {Undefined, 0}

InitHdr ==
    /\ disk = FormatDisk
    /\ freeMapFile = OpenFile(FormatDisk, FreeMapSector).hdr
    /\ directoryFile = OpenFile(FormatDisk, DirectorySector).hdr
    /\ last = [op |-> "format", name |-> <<>>, size |-> 0, flag |-> TRUE,
               status |-> "ok", ret |-> 1, why |-> "done"]
    /\ undo = NoUndo
    /\ tree = NoTree
    /\ calls = 0
    /\ writes = <<>>
    /\ SysWideOpenFileTable = NoOpenFiles
    /\ heap = {}
    /\ out = <<>>
    /\ dx = NoDx
    /\ \E m \in StartMaps, n \in 0 .. MaxAllocSize :
           hx = [NoHx EXCEPT !.phase = "start", !.map = m, !.size = n]

\* hdr = new FileHeader; hdr->Allocate(freeMap, size)
HdrAllocate ==
    LET al == Allocate(hx.map, hx.size)
    IN  /\ hx.phase = "start"
        /\ hx' = [hx EXCEPT !.phase = "allocated", !.status = al.status,
                            !.hdr = al.hdr, !.amap = al.map]
        /\ UNCHANGED <<disk, freeMapFile, directoryFile, last, undo, tree, calls, writes, idVars, dx>>

\* hdr->WriteBack(sector), sector a sector that was marked before Allocate
HdrWriteBack(sector) ==
    /\ hx.phase = "allocated" /\ hx.status = "true"
    /\ sector \in hx.map
    /\ disk' = WriteBack(disk, hx.hdr, sector)
    /\ hx' = [hx EXCEPT !.phase = "written", !.sector = sector]
    /\ UNCHANGED <<freeMapFile, directoryFile, last, undo, tree, calls, writes, idVars, dx>>

\* back = new FileHeader; back->FetchFrom(sector)
HdrFetchFrom ==
    LET f == FetchFrom(disk, hx.sector)
    IN  /\ hx.phase = "written"
        /\ f.status = "ok"
        /\ hx' = [hx EXCEPT !.phase = "fetched", !.back = f.hdr]
        /\ UNCHANGED <<disk, freeMapFile, directoryFile, last, undo, tree, calls, writes, idVars, dx>>

\* ByteToSector of every offset below the length, on both headers
HdrTranslate(oobMine, oobTheirs) ==
    /\ hx.phase = "fetched"
    /\ hx' = [hx EXCEPT
                 !.phase = "translated",
                 !.mine = [k \in 1 .. hx.size |-> ByteToSector(hx.hdr, k - 1, oobMine)],
                 !.theirs = [k \in 1 .. hx.size |-> ByteToSector(hx.back, k - 1, oobTheirs)]]
    /\ UNCHANGED <<disk, freeMapFile, directoryFile, last, undo, tree, calls, writes, idVars, dx>>

\* hdr->Deallocate(freeMap) on the header just allocated
HdrDeallocate(wild) ==
    LET de == Deallocate(hx.hdr, hx.amap, wild)
    IN  /\ hx.phase = "allocated" /\ hx.status = "true"
        /\ hx' = [hx EXCEPT !.phase = "freed", !.wild = wild,
                            !.destatus = de.status, !.demap = de.map]
        /\ UNCHANGED <<disk, freeMapFile, directoryFile, last, undo, tree, calls, writes, idVars, dx>>

NextHdr ==
    \/ HdrAllocate
    \/ \E sector \in Sectors : HdrWriteBack(sector)
    \/ HdrFetchFrom
    \/ \E a \in OobValues, b \in OobValues : HdrTranslate(a, b)
    \/ \E wild \in BOOLEAN : HdrDeallocate(wild)

SpecHdr == InitHdr /\ [][NextHdr]_vars

(* ---------------- one directory table through its operations ------------ *)
\* the names handed to Add and Remove: two names, and one that is longer than
\* FileNameMaxLen and agrees with the first on its first FileNameMaxLen
\* characters
DirNames == {<<"/", "a">>, <<"/", "b">>, <<"/", "a", "b">>}
\* the header sectors handed to Add
DirSectors == {2, 3}

\* directory->Add(name, newSector, isDir)
DirAdd(name, newSector, isDir) ==
    /\ dx' = [op |-> "add", prev |-> dx.table,
              table |-> Add(dx.table, name, newSector, isDir).table,
              name |-> name, sector |-> newSector, isDir |-> isDir,
              ok |-> Add(dx.table, name, newSector, isDir).ok]
    /\ UNCHANGED <<disk, freeMapFile, directoryFile, last, undo, tree, calls, writes,
                   hx, idVars>>

\* directory->Remove(name)
DirRemoveName(name) ==
    /\ dx' = [op |-> "remove", prev |-> dx.table,
              table |-> DirRemove(dx.table, name).table,
              name |-> name, sector |-> 0, isDir |-> FALSE,
              ok |-> DirRemove(dx.table, name).ok]
    /\ UNCHANGED <<disk, freeMapFile, directoryFile, last, undo, tree, calls, writes,
                   hx, idVars>>

NextDir ==
    \/ \E name \in DirNames, s \in DirSectors, isDir \in BOOLEAN : DirAdd(name, s, isDir)
    \/ \E name \in DirNames : DirRemoveName(name)

SpecDir == Init /\ [][NextDir]_vars
(* ======================= properties ===================================== *)
(* ---------------- what the disk holds, read from the root --------------- *)
\* the largest length a header can address
MaxFileLength == NumDirect * SectorSize + NumIndirect * NumMaxSect * SectorSize
Used(ds) == {ds[i] : i \in 1 .. Len(ds)} \ {-1}
\* the sectors a fetched header refers to: direct, indirect headers, and the
\* data sectors inside each indirect header
HeaderSectors(h) ==
    Used(h.dataSectors) \cup
    UNION {Used(h.indirectTable[i].img.dataSectors) :
              i \in {j \in 1 .. NumIndirect : h.indirectTable[j].present}}
\* the header sector of a file together with everything its header refers to
FileSectors(d, sector) == {sector} \cup HeaderSectors(FetchFrom(d, sector).hdr)
\* the table of the directory whose header is in `sector`
TableAt(d, sector) == ReadTable(d, OpenFile(d, sector).hdr).table
InUse(table) == {i \in 1 .. NumDirEntries : table[i].inUse}
\* the header sectors of the directories reachable from the directory at `sector`
RECURSIVE DirsFrom(_, _, _)
DirsFrom(d, sector, fuel) ==
    {sector} \cup
    (IF fuel = 0 THEN {}
     ELSE UNION {DirsFrom(d, TableAt(d, sector)[i].sector, fuel - 1) :
                    i \in {j \in InUse(TableAt(d, sector)) : TableAt(d, sector)[j].isDir}})
Directories(d) == DirsFrom(d, DirectorySector, NumSectors)
\* the header sectors of every file and directory reachable from the root
Headers(d) ==
    {FreeMapSector} \cup Directories(d) \cup
    UNION {{TableAt(d, ds)[i].sector : i \in InUse(TableAt(d, ds))} : ds \in Directories(d)}
\* sectors 0 and 1 and every header, indirect-header and data sector of a
\* file or directory reachable from the root
Reachable(d) == UNION {FileSectors(d, h) : h \in Headers(d)}
Consistent(d) == DiskMap(d, freeMapFile) = Reachable(d)
Returned == last.status = "ok"
Succeeded == last.status = "ok" /\ last.why = "done"

(* ---------------- C1 ---------------------------------------------------- *)
\* C1: after format and after every create or remove call that returned,
\* the sectors marked in the free map on disk are exactly sectors 0 and 1
\* and the header, indirect-header and data sectors of every file and
\* directory reachable from the root.
C1_BitmapConsistency == Returned => Consistent(disk)

(* ---------------- C2 ---------------------------------------------------- *)
\* C2: a create that returns 0 (base path not found, name present, no sector
\* for the header, directory full, no space for the data) and a remove that
\* returns false leave every sector of the disk as it was before the call.
C2_FailureAtomicity ==
    [][(calls' = calls + 1 /\ last'.status = "ok" /\ last'.why # "done")
       => disk' = disk]_vars
\* a second create of a name that is present has returned 0
C2_Witness ==
    /\ last.op = "create" /\ last.status = "ok" /\ last.ret = 0 /\ last.why = "exists"
    /\ InUse(TableAt(disk, DirectorySector)) # {}

(* ---------------- C3 ---------------------------------------------------- *)
\* C3: create(p, n, false) has put p into its parent directory and
\* remove(p, false) follows (meeting no wild pointer): the remove returns
\* true, and the free map on disk and the block of p's parent directory are
\* the ones the disk held before the create, bit for bit.
C3_CreateRemoveInverse ==
    (undo.phase = "removed" /\ last.status # "fault" /\ InRange(undo.at))
    => /\ Succeeded
       /\ DiskMap(disk, freeMapFile) = undo.map
       /\ disk[undo.at] = undo.block

(* ---------------- C4 ---------------------------------------------------- *)
\* C4: a directory d is created, files and sub-directories are created below
\* it, and remove(d, true) is called (its base path resolving, and no wild
\* pointer met): the call returns true and the free map on disk is the one
\* the disk held before d was created.
C4_RecursiveRemoveFreesSubtree ==
    (tree.phase = "removed" /\ last.status # "fault"
        /\ ~(last.status = "ok" /\ last.why = "nobase"))
    => /\ Succeeded
       /\ DiskMap(disk, freeMapFile) = tree.map

(* ---------------- C5 ---------------------------------------------------- *)
\* C5: for a header allocated with a length from 0 to the maximum length,
\* Deallocate (meeting no wild pointer) ends without a failed assertion and
\* leaves the free map as it was before Allocate.
C5_DeallocateUndoesAllocate ==
    (hx.phase = "freed" /\ ~hx.wild /\ hx.size <= MaxFileLength)
    => /\ hx.destatus = "ok"
       /\ hx.demap = hx.map

(* ---------------- C6 ---------------------------------------------------- *)
\* the indirect-header sectors a header holds
IndirectHeaders(h) == {i \in 1 .. NumIndirect : h.dataSectors[NumDirect + i] # -1}
\* C6: whenever Allocate returns TRUE, for every size >= 0, the number of
\* clear bits has dropped by ceil(size / SectorSize) plus the number of
\* indirect-header sectors taken.
C6_AllocationMonotonicity ==
    (hx.phase = "allocated" /\ hx.status = "true")
    => NumClear(hx.map) - NumClear(hx.amap)
           = divRoundUp(hx.size, SectorSize) + Cardinality(IndirectHeaders(hx.hdr))

(* ---------------- C7 ---------------------------------------------------- *)
\* the sectors a file of `size` bytes needs: data and indirect headers
SectorsNeeded(size) ==
    LET n == divRoundUp(size, SectorSize)
    IN  n + (IF n > NumDirect THEN divRoundUp(n - NumDirect, NumMaxSect) ELSE 0)
\* C7: when the free map cannot supply the data sectors and indirect-header
\* sectors a file (of a length a header can address) needs, Allocate returns
\* FALSE: it reaches no failing assertion.
C7_AllocateNeverAsserts ==
    (hx.phase = "allocated" /\ hx.size <= MaxFileLength
        /\ NumClear(hx.map) < SectorsNeeded(hx.size))
    => hx.status = "false"

(* ---------------- C8 ---------------------------------------------------- *)
\* C8: for a header allocated with length L and written to a sector, a fresh
\* header fetched from that sector translates every offset in [0, L) to the
\* sector the allocated header translates it to.
C8_HeaderRoundTrip ==
    hx.phase = "translated" => hx.theirs = hx.mine

(* ---------------- C9 ---------------------------------------------------- *)
\* C9: in the block of every directory reachable from the root, no two
\* entries in use carry the same name (compared over FileNameMaxLen
\* characters), after format and after every call that returned.
C9_DirectoryUniqueness ==
    Returned =>
        \A ds \in Directories(disk) :
            \A i \in InUse(TableAt(disk, ds)), j \in InUse(TableAt(disk, ds)) :
                StrNEq(TableAt(disk, ds)[i].name, TableAt(disk, ds)[j].name,
                       FileNameMaxLen) => i = j
\* after four calls, the last a create that returned 1, a directory
\* reachable from the root has every slot in use
C9_Witness ==
    /\ last.op = "create" /\ Succeeded /\ calls >= 4
    /\ \E ds \in Directories(disk) :
           Cardinality(InUse(TableAt(disk, ds))) = NumDirEntries

(* ---------------- C10 --------------------------------------------------- *)
\* C10 as claimed: right after format the free map on disk has bits 0 and 1
\* set and every other bit clear, and the root directory has no entry in use.
C10_PostFormatOnlyTwoBits ==
    last.op = "format"
    => /\ DiskMap(disk, freeMapFile) = {FreeMapSector, DirectorySector}
       /\ InUse(TableAt(disk, DirectorySector)) = {}
\* C10 as amended: right after format the free map on disk has set bits 0
\* and 1 and the bits of the data sectors of the free-map file and of the
\* root-directory file (one sector each here), every other bit is clear, and
\* the root directory has no entry in use.
C10_PostFormat ==
    last.op = "format"
    => /\ DiskMap(disk, freeMapFile)
              = FileSectors(disk, FreeMapSector) \cup FileSectors(disk, DirectorySector)
       /\ Cardinality(DiskMap(disk, freeMapFile))
              = 2 + divRoundUp(FreeMapFileSize, SectorSize)
                  + divRoundUp(DirectoryFileSize, SectorSize)
       /\ InUse(TableAt(disk, DirectorySector)) = {}
C10_Witness ==
    /\ last.op = "format" /\ calls = 0
    /\ disk[FreeMapSector].k = "hdr" /\ disk[DirectorySector].k = "hdr"

(* ---------------- C11 --------------------------------------------------- *)
\* the table a sector holds when it is read as a directory block
TableOf(block) == IF block.k = "dir" THEN block.table ELSE ZeroTable
\* slot i of table `new` holds a fresh entry for file `name` at header
\* sector s, and every other slot is in use exactly as in `old`
GainedEntry(old, new, i, name, s) ==
    /\ ~old[i].inUse
    /\ new[i] = [inUse |-> TRUE, name |-> Prefix(name, FileNameMaxLen),
                 sector |-> s, isDir |-> FALSE]
    /\ \A j \in 1 .. NumDirEntries \ {i} :
           /\ new[j].inUse = old[j].inUse
           /\ new[j].inUse => new[j] = old[j]
\* C11: when create(path, n, false) has returned 1, the block of the parent
\* directory on disk has gained exactly one in-use entry, named by the leaf
\* (the characters of path from its last '/' on), flagged as file, pointing
\* at the new header sector, and the free map on disk has gained exactly
\* that header sector, ceil(n / SectorSize) data sectors and the
\* indirect-header sectors of the new file.
C11_CreateEffect ==
    undo.phase = "created"
    => /\ InRange(undo.at)
       /\ \E i \in 1 .. NumDirEntries, s \in Sectors \ undo.map :
              /\ GainedEntry(TableOf(undo.block), TableOf(disk[undo.at]), i,
                             ExtractName(undo.name), s)
              /\ DiskMap(disk, freeMapFile) = undo.map \cup FileSectors(disk, s)
              /\ Cardinality(DiskMap(disk, freeMapFile) \ undo.map)
                     = 1 + divRoundUp(last.size, SectorSize)
                         + Cardinality(IndirectHeaders(FetchFrom(disk, s).hdr))

(* ---------------- C12 --------------------------------------------------- *)
\* the last call was a create or a remove that returned success
Completed(op) ==
    /\ last.op = op
    /\ last.status = "ok"
    /\ last.why = "done"
\* every write of kind a in the log of the last call comes before every write
\* of kind b, and there is one of each
Before(a, b) ==
    /\ \E i \in 1 .. Len(writes) : writes[i] = a
    /\ \E j \in 1 .. Len(writes) : writes[j] = b
    /\ \A i, j \in 1 .. Len(writes) : writes[i] = a /\ writes[j] = b => i < j
\* C12: in every create and every remove that succeeds, the parent directory
\* is written before the free map, and in create the new file header is
\* written before both of them.
C12_WriteOrder ==
    /\ Completed("create") \/ Completed("remove") => Before("dir", "map")
    /\ Completed("create") => Before("hdr", "dir") /\ Before("hdr", "map")

(* ---------------- C13 --------------------------------------------------- *)
\* a directory reachable from the root of disk d holds an in-use entry whose
\* header sector holds no header, or whose header, indirect-header or data
\* sectors are not all marked in the free map that d holds
Dangling(d) ==
    \E ds \in Directories(d) :
        \E i \in InUse(TableAt(d, ds)) :
            \/ ~InRange(TableAt(d, ds)[i].sector)
            \/ d[TableAt(d, ds)[i].sector].k # "hdr"
            \/ ~(FileSectors(d, TableAt(d, ds)[i].sector) \subseteq DiskMap(d, freeMapFile))
\* C13: when a create or a remove is cut short after a proper prefix of its
\* writes, on a disk that held no dangling directory entry, the disk it leaves
\* holds no dangling directory entry either (sectors may be left marked and
\* unreferenced, nothing worse).
C13_CrashLeavesNoDanglingEntry ==
    [][(last'.status = "crash" /\ ~Dangling(disk)) => ~Dangling(disk')]_vars

(* ---------------- C14 --------------------------------------------------- *)
\* what FileSystem::Remove answers in the current state
RemoveNow(name, recur, junk, wild) ==
    Remove(disk, freeMapFile, directoryFile, name, recur, junk, wild)
\* the header sector Remove looks up for name's leaf (-1 when the base path
\* or the leaf is not found)
LeafSector(name, junk) ==
    IF ~InRange(BaseBlock(disk, directoryFile, name, junk)) THEN -1
    ELSE Find(TableOf(disk[BaseBlock(disk, directoryFile, name, junk)]), ExtractName(name))
\* C14: remove("/", r), for either r, and any remove whose leaf entry refers
\* to DirectorySector, returns FALSE and leaves the disk (free map and
\* directories) as it was.
C14_RootNotRemovable ==
    Running =>
        \A name \in Paths, recur \in BOOLEAN, wild \in BOOLEAN :
            \A junk \in JunkFor(name) :
                (name = <<"/">> \/ LeafSector(name, junk) = DirectorySector)
                /\ RemoveNow(name, recur, junk, wild).status = "ok"
                => /\ RemoveNow(name, recur, junk, wild).ret = FALSE
                   /\ RemoveNow(name, recur, junk, wild).disk = disk

(* ---------------- C15 --------------------------------------------------- *)
\* id names a slot of the table that holds an open file
IsOpen(id) == id \in 1 .. MAX_SYS_OPENF /\ SysWideOpenFileTable[id] # NULL
\* C15: CloseFileId(id) returns 0 and changes nothing when id is outside
\* 1 .. MAX_SYS_OPENF or its slot holds no open file; it returns 1 and empties
\* the slot, and only that slot, when id is open; so closing an id twice
\* returns 1 and then 0.
C15_CloseById ==
    [][last'.op = "closeid"
       => /\ last'.status = "ok"
          /\ ~IsOpen(last'.size)
             => last'.ret = 0 /\ SysWideOpenFileTable' = SysWideOpenFileTable
          /\ IsOpen(last'.size)
             => /\ last'.ret = 1
                /\ SysWideOpenFileTable'
                       = [SysWideOpenFileTable EXCEPT ![last'.size] = NULL]
          /\ (last.op = "closeid" /\ last.ret = 1 /\ last.size = last'.size)
             => last'.ret = 0]_vars

(* ---------------- C16 --------------------------------------------------- *)
\* C16: whenever create, open, remove or list has returned, by whichever return
\* statement, every header, directory and open file the call made with new,
\* other than the open file that open hands back, has been deleted.
C16_ScopedRelease == Returned => heap = {}

(* ---------------- C17 --------------------------------------------------- *)
\* the header sector the path of the last call resolves to from the root
Resolved == SearchPath(disk, TableAt(disk, DirectorySector), Buf(last.name, <<>>), 0).sector
\* one line per in-use entry of table from slot i on, in slot order: the
\* prefix, the entry's name, a blank, and D for a directory or F for a file
RECURSIVE LinesFrom(_, _, _)
LinesFrom(table, prefix, i) ==
    IF i > NumDirEntries THEN <<>>
    ELSE (IF table[i].inUse
          THEN <<prefix \o table[i].name \o <<" ">>
                 \o (IF table[i].isDir THEN <<"D">> ELSE <<"F">>)>>
          ELSE <<>>)
         \o LinesFrom(table, prefix, i + 1)
\* list(path, false) has returned for a path that names a directory other
\* than the root
ListedNonRoot ==
    /\ last.op = "list"
    /\ ~last.flag
    /\ Resolved \in Directories(disk) \ {DirectorySector}
\* the volume after create("/d", 0, true); create("/d/x", n, false), and
\* list("/d", false) was the last call
ListedExample ==
    /\ ListedNonRoot
    /\ last.name = <<"/", "d">>
    /\ InUse(TableAt(disk, Resolved)) = {1}
    /\ TableAt(disk, Resolved)[1].name = <<"/", "x">>
    /\ ~TableAt(disk, Resolved)[1].isDir
BaseSector(d, name, junk) ==
    SearchPath(d, TableAt(d, DirectorySector), Buf(ExtractBase(name), junk), 0).sector
\* table holds an in-use entry for the leaf of name, flagged isDir
HoldsLeaf(table, name, isDir) ==
    \E i \in InUse(table) :
        /\ table[i].name = Prefix(ExtractName(name), FileNameMaxLen)
        /\ table[i].isDir = isDir
\* C18: whenever create returns 1, the base path resolved to a directory (the
\* root, or an entry flagged as a directory) and the new entry is stored in
\* the block of that directory; so a base path that names a regular file, or
\* passes through one, makes create return 0.
C18_CreateOnlyUnderDirectory ==
    [][(last'.op = "create" /\ last'.status = "ok" /\ last'.ret = 1)
       => \E junk \in JunkFor(last'.name) :
              /\ BaseSector(disk, last'.name, junk) \in Directories(disk)
              /\ HoldsLeaf(TableAt(disk', BaseSector(disk, last'.name, junk)),
                           last'.name, last'.flag)]_vars

(* ---------------- C19 --------------------------------------------------- *)
\* the sector the translation is to give: with p = offset / SectorSize,
\* dataSectors[p] for p < NumDirect, and otherwise, with p' = p - NumDirect,
\* entry p' % NumMaxSect of indirect header p' / NumMaxSect
ReferenceSector(h, offset) ==
    IF offset \div SectorSize < NumDirect
    THEN h.dataSectors[(offset \div SectorSize) + 1]
    ELSE h.indirectTable[(((offset \div SectorSize) - NumDirect) \div NumMaxSect) + 1]
             .img.dataSectors[(((offset \div SectorSize) - NumDirect) % NumMaxSect) + 1]
\* C19: for a header allocated with a length L within the maximum length,
\* ByteToSector gives, for every offset in [0, L), the sector of the
\* reference formula; the offset NumDirect * SectorSize resolves to entry 0
\* of the first indirect header.
C19_ByteToSector ==
    (hx.phase = "translated" /\ hx.size <= MaxFileLength)
    => /\ \A k \in 0 .. hx.size - 1 : hx.mine[k + 1] = ReferenceSector(hx.hdr, k)
       /\ NumDirect * SectorSize < hx.size
          => /\ hx.hdr.indirectTable[1].present
             /\ hx.mine[NumDirect * SectorSize + 1]
                    = hx.hdr.indirectTable[1].img.dataSectors[1]
\* a header of the maximum length was translated: every offset led to a
\* sector that Allocate had marked for it, through both indirect headers
C19_Witness ==
    /\ hx.phase = "translated"
    /\ hx.size = MaxFileLength
    /\ \A k \in 1 .. hx.size : hx.mine[k] \in hx.amap \ hx.map
    /\ hx.mine[MaxFileLength] = hx.hdr.indirectTable[NumIndirect].img.dataSectors[NumMaxSect]

(* ---------------- C20 --------------------------------------------------- *)
\* the length of the first component of a path: up to the next '/'
ComponentEnd(path) ==
    IF \E n \in 2 .. Len(path) : path[n] = "/"
    THEN (CHOOSE n \in 2 .. Len(path) :
              path[n] = "/" /\ \A m \in 2 .. n - 1 : path[m] # "/") - 1
    ELSE Len(path)
\* the slots of the directory at `sector` whose entry is in use under the
\* first component of path
Hits(d, sector, path) ==
    {i \in InUse(TableAt(d, sector)) :
        StrNEq(TableAt(d, sector)[i].name, SubSeq(path, 1, ComponentEnd(path)),
               FileNameMaxLen)}
\* the components of path followed one by one from the directory at `sector`:
\* the header sector of the last one's entry, -1 at the first that is absent
RECURSIVE Walk(_, _, _)
Walk(d, sector, path) ==
    IF path = <<>> THEN sector
    ELSE IF Hits(d, sector, path) = {} THEN -1
    ELSE Walk(d, TableAt(d, sector)[CHOOSE i \in Hits(d, sector, path) :
                                        \A j \in Hits(d, sector, path) : i <= j].sector,
              SubSeq(path, ComponentEnd(path) + 1, Len(path)))
ExpectedSector(d, path) ==
    IF path = <<"/">> THEN DirectorySector ELSE Walk(d, DirectorySector, path)
\* C20: SearchPath(path, 0) on the root directory returns DirectorySector for
\* "/", the header sector of the last component's entry when every component
\* exists, and -1 as soon as one component is absent; Open, which resolves
\* its path this way, opens the file at that sector, or none.
C20_PathResolution ==
    /\ \A path \in IdPaths :
           SearchPath(disk, TableAt(disk, DirectorySector), Buf(path, <<>>), 0)
               = [status |-> "ok", sector |-> ExpectedSector(disk, path)]
    /\ (last.op = "openid" /\ last.status = "ok")
       => SysWideOpenFileTable[last.ret] = ExpectedSector(disk, last.name)
\* /d/x was opened on a volume that holds it: its header sector is neither the
\* root's nor that of /d, while /d/b and /b/x resolve to nothing
C20_Witness ==
    /\ last.op = "openid"
    /\ last.status = "ok"
    /\ last.name = <<"/", "d", "/", "x">>
    /\ SysWideOpenFileTable[last.ret] = ExpectedSector(disk, last.name)
    /\ ExpectedSector(disk, last.name) > DirectorySector
    /\ ExpectedSector(disk, last.name) # ExpectedSector(disk, <<"/", "d">>)
    /\ ExpectedSector(disk, <<"/", "d", "/", "b">>) = -1
    /\ ExpectedSector(disk, <<"/", "b", "/", "x">>) = -1

(* ---------------- C21 --------------------------------------------------- *)
\* the paths of one component: /name
TopLevel == {name \in Paths : Len(name) > 1 /\ LastSlash(name) = 1}
\* what SearchPath answers for the base path of name, read from the root of
\* the disk, with `junk` behind the terminator of the base-path buffer
BaseSearch(name, junk) ==
    SearchPath(disk, TableAt(disk, DirectorySector), Buf(ExtractBase(name), junk), 0)
\* C21: for every path /name, ExtractBasePath gives the empty base path and
\* the leaf /name, and SearchPath on that base path answers DirectorySector
\* whatever bytes lie behind the terminator in the base-path buffer, so that
\* create and remove of /name act on the root directory.
C21_TopLevelResolvesToRoot ==
    Running =>
        \A name \in TopLevel :
            /\ ExtractBase(name) = <<>>
            /\ ExtractName(name) = name
            /\ \A junk \in Junk :
                   BaseSearch(name, junk) = [status |-> "ok", sector |-> DirectorySector]

(* ---------------- C22 --------------------------------------------------- *)
\* the first n slots of ds[from + 1 .. to] hold a sector and the others -1
Filled(ds, from, to, n) ==
    \A i \in (from + 1) .. to : IF i - from <= n THEN ds[i] # -1 ELSE ds[i] = -1
\* the data sectors indirect header i (from 1) is to hold when the header
\* holds n data sectors in all
Share(n, i) ==
    IF n - NumDirect - (i - 1) * NumMaxSect <= 0 THEN 0
    ELSE Min(NumMaxSect, n - NumDirect - (i - 1) * NumMaxSect)
\* the pointer slots of header h that refer to a data sector: <<0, i>> is
\* direct slot i, <<j, i>> is slot i of indirect header j
DataSlots(h) ==
    {<<0, i>> : i \in {k \in 1 .. NumDirect : h.dataSectors[k] # -1}}
    \cup UNION {{<<j, i>> : i \in {k \in 1 .. HdrSlots :
                                      h.indirectTable[j].img.dataSectors[k] # -1}} :
                   j \in {k \in 1 .. NumIndirect : h.indirectTable[k].present}}
DataSectorOf(h, slot) ==
    IF slot[1] = 0 THEN h.dataSectors[slot[2]]
    ELSE h.indirectTable[slot[1]].img.dataSectors[slot[2]]
\* C22: a header that Allocate(freeMap, size) returned TRUE for refers to
\* exactly ceil(size / SectorSize) data sectors, no sector twice; the direct
\* slots are filled first and the indirect headers in order, each from its
\* slot 0 on; every sector referred to (direct, indirect header, data of an
\* indirect header) is a sector of the disk and marked in the free map; and
\* every pointer slot not used holds -1.
C22_HeaderValidity ==
    (hx.phase = "allocated" /\ hx.status = "true")
    => /\ Cardinality(DataSlots(hx.hdr)) = divRoundUp(hx.size, SectorSize)
       /\ Cardinality({DataSectorOf(hx.hdr, s) : s \in DataSlots(hx.hdr)})
              = Cardinality(DataSlots(hx.hdr))
       /\ Cardinality(HeaderSectors(hx.hdr))
              = Cardinality(DataSlots(hx.hdr)) + Cardinality(IndirectHeaders(hx.hdr))
       /\ Filled(hx.hdr.dataSectors, 0, NumDirect,
                 Min(divRoundUp(hx.size, SectorSize), NumDirect))
       /\ \A j \in 1 .. NumIndirect :
              /\ hx.hdr.dataSectors[NumDirect + j] # -1
                     <=> Share(divRoundUp(hx.size, SectorSize), j) > 0
              /\ hx.hdr.indirectTable[j].present
                     <=> Share(divRoundUp(hx.size, SectorSize), j) > 0
              /\ Filled(hx.hdr.indirectTable[j].img.dataSectors, 0, HdrSlots,
                        Share(divRoundUp(hx.size, SectorSize), j))
       /\ HeaderSectors(hx.hdr) \subseteq Sectors \cap hx.amap

(* ---------------- C23 --------------------------------------------------- *)
\* the slots of table in use under name, compared over FileNameMaxLen
\* characters
Present(table, name) ==
    {i \in 1 .. NumDirEntries : table[i].inUse /\ StrNEq(table[i].name, name, FileNameMaxLen)}
FreeSlots(table) == {i \in 1 .. NumDirEntries : ~table[i].inUse}
Lowest(slots) == CHOOSE i \in slots : \A j \in slots : i <= j
\* C23: Add(name, sector, isDir) returns FALSE and leaves the table as it was
\* when name is present in an in-use entry or no slot is free; otherwise it
\* returns TRUE, fills the lowest free slot with the fields handed in and
\* changes no other slot.  Remove(name) clears the inUse flag of the matching
\* entry, keeps its other fields and every other slot as they were (FALSE and
\* no change when no entry matches); so an Add that follows a Remove takes the
\* freed slot or a lower free one.
C23_SlotDiscipline ==
    [][/\ (dx'.op = "add" /\ (Present(dx.table, dx'.name) # {} \/ FreeSlots(dx.table) = {}))
          => ~dx'.ok /\ dx'.table = dx.table
       /\ (dx'.op = "add" /\ Present(dx.table, dx'.name) = {} /\ FreeSlots(dx.table) # {})
          => /\ dx'.ok
             /\ dx'.table = [dx.table EXCEPT ![Lowest(FreeSlots(dx.table))] =
                                [inUse |-> TRUE,
                                 name |-> Prefix(dx'.name, FileNameMaxLen),
                                 sector |-> dx'.sector,
                                 isDir |-> dx'.isDir]]
       /\ (dx'.op = "remove" /\ Present(dx.table, dx'.name) = {})
          => ~dx'.ok /\ dx'.table = dx.table
       /\ (dx'.op = "remove" /\ Present(dx.table, dx'.name) # {})
          => /\ dx'.ok
             /\ dx'.table = [dx.table EXCEPT
                                ![Lowest(Present(dx.table, dx'.name))].inUse = FALSE]
       /\ (dx.op = "remove" /\ dx.ok /\ dx'.op = "add" /\ dx'.ok)
          => \E i \in 1 .. NumDirEntries :
                 /\ dx'.table[i].inUse /\ ~dx.table[i].inUse
                 /\ i <= Lowest(Present(dx.prev, dx.name))]_vars
\* a full table had the entry of slot 0 removed and an Add with another
\* header sector has filled slot 0 again, slot 1 staying as it was
C23_Witness ==
    /\ dx.op = "add" /\ dx.ok
    /\ ~dx.prev[1].inUse /\ dx.prev[1].name # <<>>
    /\ dx.prev[2].inUse
    /\ dx.table[1].inUse /\ dx.table[1].name = Prefix(dx.name, FileNameMaxLen)
    /\ dx.table[1].sector = dx.sector /\ dx.sector # dx.prev[1].sector
    /\ dx.table[2] = dx.prev[2]

(* ---------------- C24 --------------------------------------------------- *)
\* create(path, n, true) was the last call and returned 1
MadeDirectory ==
    /\ last.op = "create"
    /\ last.status = "ok"
    /\ last.ret = 1
    /\ last.flag
\* C24: right after create(path, n, true) has returned 1, for any n and
\* whatever the data sector taken for it held before, path resolves to a
\* directory whose file has length DirectoryFileSize and whose table holds no
\* entry in use.
C24_NewDirectoryEmpty ==
    MadeDirectory
    => /\ InRange(Resolved)
       /\ FetchFrom(disk, Resolved).status = "ok"
       /\ FetchFrom(disk, Resolved).hdr.numBytes = DirectoryFileSize
       /\ InUse(TableAt(disk, Resolved)) = {}

(* ---------------- C25 --------------------------------------------------- *)
\* the in-use entries of the directories reachable from the root of disk d:
\* <<ds, i>> is slot i of the directory whose header is in sector ds
Entries(d) ==
    UNION {{<<ds, i>> : i \in InUse(TableAt(d, ds))} : ds \in Directories(d)}
EntrySector(d, e) == TableAt(d, e[1])[e[2]].sector
\* the sectors the header in sector h refers to
Owned(d, h) == HeaderSectors(FetchFrom(d, h).hdr)
\* the pointer slots in use of the header in sector h
Pointers(d, h) ==
    Cardinality(DataSlots(FetchFrom(d, h).hdr))
        + Cardinality(IndirectHeaders(FetchFrom(d, h).hdr))
\* C25: after format and after every create or remove call that returned, no
\* sector is referred to twice in what the disk holds below the root: no two
\* in-use directory entries name the same header sector, and none names
\* sector 0 or 1; no data or indirect-header sector appears twice in one
\* header or in two headers, and none is a header sector, sector 0 or
\* sector 1.
C25_TreeOwnership ==
    Returned =>
        /\ \A e \in Entries(disk), f \in Entries(disk) :
               EntrySector(disk, e) = EntrySector(disk, f) => e = f
        /\ \A e \in Entries(disk) :
               EntrySector(disk, e) \notin {FreeMapSector, DirectorySector}
        /\ \A h \in Headers(disk) :
               /\ FetchFrom(disk, h).status = "ok"
               /\ Cardinality(Owned(disk, h)) = Pointers(disk, h)
               /\ Owned(disk, h) \cap Headers(disk) = {}
               /\ \A g \in Headers(disk) \ {h} : Owned(disk, h) \cap Owned(disk, g) = {}
\* after four calls the root holds two entries, one of them a directory that
\* holds an entry itself, and one file has an indirect header
C25_Witness ==
    /\ Returned /\ calls = MaxCalls
    /\ Cardinality(Entries(disk)) >= 3
    /\ Cardinality(Directories(disk)) >= 2
    /\ \E h \in Headers(disk) : IndirectHeaders(FetchFrom(disk, h).hdr) # {}

(* ---------------- C26 --------------------------------------------------- *)
\* the length create(name, n, isDir) is to give the new file
LengthAsked(n, isDir) == IF isDir THEN DirectoryFileSize ELSE n
\* C26: when create(path, n, isDir) returns 1, an open of path on the disk
\* the call leaves answers an open file (not NULL) on the header sector this
\* create took from the free map, and the header in that sector records the
\* length n, DirectoryFileSize for a directory.
C26_CreatedIsReachable ==
    [][(last'.op = "create" /\ last'.status = "ok" /\ last'.ret = 1)
       => /\ Open(disk', directoryFile, last'.name)
                 = [status |-> "ok", file |-> FindFree(DiskMap(disk, freeMapFile))]
          /\ FetchFrom(disk', FindFree(DiskMap(disk, freeMapFile))).hdr.numBytes
                 = LengthAsked(last'.size, last'.flag)]_vars

(* ---------------- C27 --------------------------------------------------- *)
\* the sectors that differ between two disks
Changed(d, e) == {s \in Sectors : d[s] # e[s]}
\* the sectors of the indirect headers of header h
IndirectSectors(h) == {h.dataSectors[NumDirect + i] : i \in IndirectHeaders(h)}
\* what a create of a path may write to for the path itself, its header being
\* put in sector s: the header, its indirect headers and, for a directory,
\* its data block
OwnSectors(d, s, isDir) ==
    {s} \cup IndirectSectors(FetchFrom(d, s).hdr)
        \cup (IF isDir THEN {FirstSector(FetchFrom(d, s).hdr)} ELSE {})
\* the data sector of the free-map file
MapBlock == FirstSector(freeMapFile)
\* the last call, a create or a remove without recur, has written to the disk
\* (it returned success, or was stopped after some of its writes)
WroteFlat ==
    /\ disk' # disk
    /\ last'.op = "create" \/ (last'.op = "remove" /\ ~last'.flag)
\* C27: a create, or a remove without recur, of path p changes on disk only
\* the free map, the block of p's parent directory and, in a create, the
\* header (with its indirect headers) and, for a new directory, the data
\* block of p itself; the header of every file on the disk before the call,
\* with its length and the sectors its offsets lead to, and the block of
\* every directory other than p's parent are as they were.
C27_Frame ==
    [][WroteFlat
       => /\ Changed(disk, disk')
                 \subseteq {MapBlock, BaseBlock(disk, directoryFile, last'.name, <<>>)}
                     \cup (IF last'.op = "create"
                           THEN OwnSectors(disk', FindFree(DiskMap(disk, freeMapFile)),
                                           last'.flag)
                           ELSE {})
          /\ \A h \in Headers(disk) : FetchFrom(disk', h) = FetchFrom(disk, h)
          /\ \A ds \in Directories(disk) :
                 FirstSector(FetchFrom(disk, ds).hdr)
                     # BaseBlock(disk, directoryFile, last'.name, <<>>)
                 => disk'[FirstSector(FetchFrom(disk, ds).hdr)]
                        = disk[FirstSector(FetchFrom(disk, ds).hdr)]]_vars
\* a file inside a directory was removed without recur while the disk held,
\* besides the free map and the root, that directory and another file
C27_Witness ==
    /\ last.op = "remove" /\ ~last.flag /\ Succeeded
    /\ Len(last.name) = 4
    /\ writes = <<"map", "dir">>
    /\ Cardinality(Headers(disk)) >= 4
    /\ Cardinality(Directories(disk)) >= 2

(* ---------------- C28 --------------------------------------------------- *)
\* OpenFileForId(name) was the call just made, and it returned
ReturnedId == last'.op = "openid" /\ last'.status = "ok"
\* C28: every id that OpenFileForId returns lies in 1 .. MAX_SYS_OPENF, is
\* the lowest id whose slot was free, and so is no id that is open already;
\* its slot then holds an open file on the header sector the path resolves
\* to, no other slot is written, and no id is returned for a path that does
\* not resolve.
C28_OpenFileIds ==
    [][ReturnedId
       => /\ last'.ret \in 1 .. MAX_SYS_OPENF
          /\ SysWideOpenFileTable[last'.ret] = NULL
          /\ \A fd \in 1 .. last'.ret - 1 : SysWideOpenFileTable[fd] # NULL
          /\ ExpectedSector(disk, last'.name) # -1
          /\ SysWideOpenFileTable'
                 = [SysWideOpenFileTable EXCEPT
                        ![last'.ret] = ExpectedSector(disk, last'.name)]]_vars

(* ---------------- C29 --------------------------------------------------- *)
\* the paths whose base path resolves to nothing on the disk
Baseless == {path \in IdPaths \ {<<"/">>} : BaseSector(disk, path, <<>>) = -1}
\* C29: when its path does not resolve, list returns without a read of a
\* sector outside the disk and prints nothing, and open answers NULL the same
\* way; when the base of its path does not resolve, create returns 0 and
\* remove FALSE, with no sector outside the disk read or written and the disk
\* as it was.
C29_UnresolvedPathsTouchNothing ==
    [][/\ (last'.op = "list" /\ ExpectedSector(disk, last'.name) = -1)
          => last'.status = "ok" /\ out' = <<>>
       /\ (last'.op = "openid" /\ ExpectedSector(disk, last'.name) = -1)
          => Open(disk, directoryFile, last'.name) = [status |-> "ok", file |-> NULL]
       /\ \A path \in Baseless, flag \in BOOLEAN :
              /\ Create(disk, freeMapFile, directoryFile, path, 0, flag, <<>>)
                     = Outcome("ok", 0, "nobase", disk)
              /\ Remove(disk, freeMapFile, directoryFile, path, flag, <<>>, FALSE)
                     = Outcome("ok", FALSE, "nobase", disk)]_vars
====
